---- MODULE Spec2Model ----
(***************************************************************************)
(* Task scheduler (handler.py, dynamo.py, task_types): the due-task scan, *)
(* the per-task dispatch and the reconciliation of the cpu-tasks          *)
(* table, as a state machine; the recurrence calculator and the target    *)
(* expander also as pure functions under their own specifications.        *)
(***************************************************************************)
EXTENDS Integers, Sequences, FiniteSets, TLC

VARIABLES
    store,      \* cpu-tasks table: task_id -> item
    now,        \* the wall clock (datetime.utcnow()), in clock ticks
    ticks,      \* clock advances so far (bounds the exploration)
    runs,       \* handler invocations so far (bounds the exploration)
    pc,         \* "idle" | "running": position of the handler
    queue,      \* due_tasks still to process: the items as fetched by the scan
    results,    \* handler's `results` summary of the run in progress / last run
    last,       \* record of the latest process_task call (its return and effects)
    outcome,    \* per task: outcome of its latest process_task call
    firedCount, \* per task: number of mark_task_fired updates applied
    failStreak, \* per task: consecutive errored runs since the last firing
    errBase,    \* per task: error_count at the start of the current streak
    calc,       \* recurrence calculator under test (specification SpecRecur)
    expn,       \* target expander under test (specification SpecExpand)
    loop        \* agentic loop of one task-target (specification SpecLoop)

vars == <<store, now, ticks, runs, pc, queue, results, last, outcome,
          firedCount, failStreak, errBase, calc, expn, loop>>

-----------------------------------------------------------------------------
(* Bounds of the exploration *)

\* clock resolution: ticks per minute (now may lie strictly inside a minute)
TicksPerMinute == 2
\* handler invocations explored
MaxRuns == 3
\* clock advances explored
MaxTicks == 2

-----------------------------------------------------------------------------
(* Python values *)

\* None / a present value
None == <<>>
Some(x) == <<x>>
\* dict.get(key, default) on an optional field
Get(opt, default) == IF opt = None THEN default ELSE opt[1]
\* truthiness of an optional string (None and '' are falsy)
Truthy(opt) == opt # None /\ opt[1] # ""

Minute == TicksPerMinute
Hour == 60 * Minute
Day == 24 * Hour
Week == 7 * Day

\* datetime.isoformat(): 'YYYY-MM-DDTHH:MM:SS.ffffff' as its fixed-width fields
\* <<date, hour, minute, fraction of the minute>>; the date is the day number
isoformat(t) == <<t \div Day, (t % Day) \div Hour, (t % Hour) \div Minute, t % Minute>>

\* string comparison of two isoformat strings (DynamoDB's lte on the range key):
\* lexicographic, field by field
StrLte(a, b) ==
    \/ a[1] < b[1]
    \/ a[1] = b[1] /\ a[2] < b[2]
    \/ a[1] = b[1] /\ a[2] = b[2] /\ a[3] < b[3]
    \/ a[1] = b[1] /\ a[2] = b[2] /\ a[3] = b[3] /\ a[4] <= b[4]

\* datetime.weekday(): Monday = 0 ... Sunday = 6 (day number 0 is a Monday)
weekday(t) == (t \div Day) % 7

\* datetime.replace(hour=h, minute=m, second=0, microsecond=0)
replace_time(t, h, m) == (t \div Day) * Day + h * Hour + m * Minute

-----------------------------------------------------------------------------
(* dynamo.py: recurrence calculator *)

days == <<"sunday", "monday", "tuesday", "wednesday", "thursday", "friday", "saturday">>

\* recurring.startswith('weekly:')
IsWeekly(recurring) ==
    recurring \in {"weekly:sunday", "weekly:monday", "weekly:tuesday", "weekly:wednesday",
                   "weekly:Wednesday", "weekly:thursday", "weekly:friday",
                   "weekly:saturday", "weekly:funday"}

\* recurring.split(':')[1].lower()
target_day(recurring) ==
    CASE recurring = "weekly:sunday" -> "sunday"
      [] recurring = "weekly:monday" -> "monday"
      [] recurring = "weekly:tuesday" -> "tuesday"
      [] recurring = "weekly:wednesday" -> "wednesday"
      [] recurring = "weekly:Wednesday" -> "wednesday"
      [] recurring = "weekly:thursday" -> "thursday"
      [] recurring = "weekly:friday" -> "friday"
      [] recurring = "weekly:saturday" -> "saturday"
      [] OTHER -> "funday"

\* map(int, preferred_time.split(':'))
parse_time(preferred_time) ==
    CASE preferred_time = "00:00" -> <<0, 0>>
      [] preferred_time = "09:30" -> <<9, 30>>
      [] preferred_time = "12:00" -> <<12, 0>>
      [] OTHER -> <<23, 59>>

\* mutant: the runtime's weekday (Monday = 0) used as if Sunday were 0
MutWeeklyMondayZero(next_time, recurring) ==
    LET td == target_day(recurring) IN
    IF \E i \in 1..Len(days) : days[i] = td
    THEN LET target_day_index == (CHOOSE i \in 1..Len(days) : days[i] = td) - 1
             current_day == weekday(next_time)
             days_to_add == target_day_index - current_day
         IN IF days_to_add <= 0 THEN days_to_add + 7 ELSE days_to_add
    ELSE 7

\* the weekly branch: days to add from next_time's weekday to the target day
weekly_days_to_add(next_time, recurring) ==
    LET td == target_day(recurring) IN
    IF \E i \in 1..Len(days) : days[i] = td
    THEN LET target_day_index == (CHOOSE i \in 1..Len(days) : days[i] = td) - 1
             \* Convert to Sunday=0 format
             current_day == (weekday(next_time) + 1) % 7
             days_to_add == target_day_index - current_day
         IN IF days_to_add <= 0 THEN days_to_add + 7 ELSE days_to_add
    ELSE 7  \* ValueError from days.index

calculate_recurring_next_fire(from_date, recurring, preferred_time) ==
    LET start == IF preferred_time # None /\ preferred_time[1] # ""
                 THEN LET hm == parse_time(preferred_time[1])
                      IN replace_time(from_date, hm[1], hm[2])
                 ELSE from_date
        next_time ==
            IF start <= from_date
            THEN CASE recurring = "hourly" -> start + Hour
                   [] recurring = "daily" -> start + Day
                   [] IsWeekly(recurring) -> start + weekly_days_to_add(start, recurring) * Day
                   [] OTHER -> start
            ELSE start
    IN isoformat(next_time)

\* mutant: a zero repeat_interval is taken as an interval
MutNextFireZeroInterval(task, nowT) ==
    IF Truthy(task.recurring)
    THEN Some(calculate_recurring_next_fire(nowT, task.recurring[1], task.schedule_time))
    ELSE LET repeat_interval == Get(task.scheduler_params.repeat_interval, 60)
         IN Some(isoformat(nowT + repeat_interval * Minute))

\* returns None or Some(isoformat string)
calculate_next_fire(task, nowT) ==
    IF Truthy(task.recurring)
    THEN Some(calculate_recurring_next_fire(nowT, task.recurring[1], task.schedule_time))
    ELSE LET repeat_interval == Get(task.scheduler_params.repeat_interval, 60)
         IN IF repeat_interval # 0
            THEN Some(isoformat(nowT + repeat_interval * Minute))
            ELSE None

-----------------------------------------------------------------------------
(* dynamo.py: the cpu-tasks table *)

\* the item after update_item(SET ...): the named attributes replaced, the
\* key attributes never among them
update_task(item, updates) ==
    [f \in DOMAIN item |->
        IF f \in DOMAIN updates /\ f \notin {"task_id", "target"}
        THEN updates[f] ELSE item[f]]

\* mutant: the scan without the status condition
MutGetDueIgnoresStatus(table, nowT) ==
    {id \in DOMAIN table :
        /\ table[id].next_fire # None
        /\ StrLte(table[id].next_fire[1], isoformat(nowT))}

\* the status-next_fire-index query: status = 'active' AND next_fire <= now
\* (an item without next_fire is not in the index)
get_due_tasks(table, nowT) ==
    {id \in DOMAIN table :
        /\ table[id].status = "active"
        /\ table[id].next_fire # None
        /\ StrLte(table[id].next_fire[1], isoformat(nowT))}

\* mutant: the firing update without the error reset
MutMarkFiredKeepsErrors(task, nowT) ==
    LET scheduler_params == task.scheduler_params
        repeats_executed == Get(scheduler_params.repeats_executed, 0) + 1
        num_repeats == Get(scheduler_params.num_repeats, 0)
        new_status == IF num_repeats > 0 /\ repeats_executed >= num_repeats
                      THEN "inactive" ELSE task.status
        next_fire == IF new_status = "active" THEN calculate_next_fire(task, nowT) ELSE None
    IN [last_fired |-> Some(isoformat(nowT)),
        next_fire |-> next_fire,
        status |-> new_status,
        scheduler_params |->
            [scheduler_params EXCEPT !.repeats_executed = Some(repeats_executed)]]

\* mutant: the deactivation test with > for >=
MutMarkFiredOffByOne(task, nowT) ==
    LET scheduler_params == task.scheduler_params
        repeats_executed == Get(scheduler_params.repeats_executed, 0) + 1
        num_repeats == Get(scheduler_params.num_repeats, 0)
        new_status == IF num_repeats > 0 /\ repeats_executed > num_repeats
                      THEN "inactive" ELSE task.status
        next_fire == IF new_status = "active" THEN calculate_next_fire(task, nowT) ELSE None
    IN [last_fired |-> Some(isoformat(nowT)),
        next_fire |-> next_fire,
        status |-> new_status,
        scheduler_params |->
            [scheduler_params EXCEPT !.repeats_executed = Some(repeats_executed)],
        error_count |-> Some(0),
        last_error |-> None]

\* mutant: the incremented counter is not written back
MutMarkFiredDropsCount(task, nowT) ==
    LET scheduler_params == task.scheduler_params
        repeats_executed == Get(scheduler_params.repeats_executed, 0) + 1
        num_repeats == Get(scheduler_params.num_repeats, 0)
        new_status == IF num_repeats > 0 /\ repeats_executed >= num_repeats
                      THEN "inactive" ELSE task.status
        next_fire == IF new_status = "active" THEN calculate_next_fire(task, nowT) ELSE None
    IN [last_fired |-> Some(isoformat(nowT)),
        next_fire |-> next_fire,
        status |-> new_status,
        scheduler_params |-> scheduler_params,
        error_count |-> Some(0),
        last_error |-> None]

\* the updates mark_task_fired hands to update_task
mark_task_fired(task, nowT) ==
    LET scheduler_params == task.scheduler_params
        repeats_executed == Get(scheduler_params.repeats_executed, 0) + 1
        num_repeats == Get(scheduler_params.num_repeats, 0)
        new_status == IF num_repeats > 0 /\ repeats_executed >= num_repeats
                      THEN "inactive" ELSE task.status
        next_fire == IF new_status = "active" THEN calculate_next_fire(task, nowT) ELSE None
    IN [last_fired |-> Some(isoformat(nowT)),
        next_fire |-> next_fire,
        status |-> new_status,
        scheduler_params |->
            [scheduler_params EXCEPT !.repeats_executed = Some(repeats_executed)],
        error_count |-> Some(0),
        last_error |-> None]

\* mutant: the error update also clears next_fire
MutRecordErrorClearsNextFire(task, error_message) ==
    [error_count |-> Some(Get(task.error_count, 0) + 1),
     last_error |-> Some(error_message),
     next_fire |-> None]

\* mutant: error_count counts the failing targets (one 'target: error' entry each)
MutRecordErrorPerTarget(task, error_message) ==
    [error_count |-> Some(Get(task.error_count, 0) + (Len(error_message) + 1) \div 4),
     last_error |-> Some(error_message)]

\* the updates record_task_error hands to update_task
record_task_error(task, error_message) ==
    [error_count |-> Some(Get(task.error_count, 0) + 1),
     last_error |-> Some(error_message)]

-----------------------------------------------------------------------------
(* handler.py: target expansion and channel resolution *)

\* target.startswith('role:')
IsRoleRef(target) == target \in {"role:hive", "role:ops"}
\* target[5:]
role_name(target) == IF target = "role:hive" THEN "hive" ELSE "ops"

\* handler.py reads the name DISCORD_BOT_LAMBDA at line 224 and nowhere binds it
\* (no assignment, no import): evaluating it raises NameError
DISCORD_BOT_LAMBDA_bound == FALSE

\* lookup: the membership collaborator's answer for the role,
\* [raised, statusCode, members] (raised: the invocation raises)
resolve_role_members(role, lookup) ==
    IF ~DISCORD_BOT_LAMBDA_bound THEN <<>>          \* NameError, caught at 237
    ELSE IF lookup[role].raised THEN <<>>           \* caught at 237
    ELSE IF lookup[role].statusCode = 200 THEN lookup[role].members
    ELSE <<>>

RECURSIVE expand_list(_, _, _)
\* the list `expanded` after the loop over targets[i..]
expand_list(targets, lookup, i) ==
    IF i > Len(targets) THEN <<>>
    ELSE (IF IsRoleRef(targets[i])
          THEN resolve_role_members(role_name(targets[i]), lookup)
          ELSE <<targets[i]>>) \o expand_list(targets, lookup, i + 1)

\* list(set(expanded)): the distinct elements; their order is the set's
\* iteration order, which the caller cannot rely on
expand_targets(targets, lookup) ==
    LET expanded == expand_list(targets, lookup, 1)
    IN {expanded[i] : i \in 1..Len(expanded)}

\* channel_type.isdigit()
isdigit(s) == s \in {"123456"}

\* a channel attribute that is not a string: a number of the table, read back
\* as Decimal, which has no isdigit
NonStringChannels == {"Decimal(7)"}

\* resolve_channel ends by an exception: channel_type.isdigit() on a non-string
resolve_channel_raises(channel_type, target, task) ==
    ~Truthy(task.channel_id) /\ channel_type \in NonStringChannels

\* mutant: the channel mode dm is looked at before the stored channel_id
MutResolveDmFirst(channel_type, target, task) ==
    IF channel_type = "dm" THEN <<None, Some(target)>>
    ELSE IF Truthy(task.channel_id) THEN <<task.channel_id, None>>
    ELSE IF channel_type # "" /\ isdigit(channel_type) THEN <<Some(channel_type), None>>
    ELSE <<None, None>>

\* (channel_id, drone_id)
resolve_channel(channel_type, target, task) ==
    IF Truthy(task.channel_id) THEN <<task.channel_id, None>>
    ELSE IF channel_type # "" /\ isdigit(channel_type) THEN <<Some(channel_type), None>>
    ELSE IF channel_type = "dm" THEN <<None, Some(target)>>
    ELSE <<None, None>>

-----------------------------------------------------------------------------
(* task_types: the handlers.  A handler's outcome is                       *)
(* [raised, success, error, entered, sent]: raised = it ended by an        *)
(* exception (error = str(e)), entered = its body ran, sent = it submitted *)
(* to its collaborator.                                                    *)

Returned(success, error, sent) ==
    [raised |-> FALSE, success |-> success, error |-> error, entered |-> TRUE, sent |-> sent]
Raised(error, entered) ==
    [raised |-> TRUE, success |-> FALSE, error |-> Some(error), entered |-> entered, sent |-> FALSE]

\* what the collaborator behind a MESSAGE or POLL handler does with a submission;
\* "escapes": the handler ends by an exception of its own, raised outside its
\* try blocks (poll.py 53: int(duration_hours) of a non-numeric value)
NetResponses == {"ack", "refused", "raised", "escapes"}

\* how handle_query_for_update ends: its return statements, and "escapes", an
\* exception raised before the loop (query_for_update.py 137: int() of a
\* non-numeric max_iterations)
LoopEndings == {"message_sent", "skip_message", "end_turn", "unexpected_stop",
                "backend_error", "max_iterations_reached", "escapes"}

AGENT_LAMBDAS == {"void-mother", "0xf100", "0xf101"}

\* def handle_message(task, target, channel_id): its positional parameters
handle_message_params == 3

handle_message(task, target, channel_id, resp) ==
    IF task.payload.content = ""
    THEN Returned(FALSE, Some("No message content provided"), FALSE)
    ELSE IF task.assignee \notin AGENT_LAMBDAS
    THEN Returned(FALSE, Some("Unknown agent: <assignee>"), FALSE)
    ELSE IF resp = "ack" THEN Returned(TRUE, None, TRUE)
    ELSE Returned(FALSE, Some("<invoke error>"), TRUE)

\* the call handle_message(*args): binding the arguments comes first
call_handle_message(args, resp) ==
    IF Len(args) # handle_message_params
    THEN Raised("handle_message() takes 3 positional arguments but 4 were given", FALSE)
    ELSE handle_message(args[1], args[2], args[3], resp)

\* mutant: a poll is refused in DM modes only when no channel_id came with it
MutPollDmOnlyWithoutChannel(task, target, channel_id, resp) ==
    LET options == task.payload.options
        channel_type == Get(task.channel, "dm")
    IN  IF resp = "escapes" THEN Raised("<exception>", TRUE)
        ELSE IF task.payload.question = ""
        THEN Returned(FALSE, Some("No poll question provided"), FALSE)
        ELSE IF options < 2
        THEN Returned(FALSE, Some("Poll requires at least 2 options"), FALSE)
        ELSE IF options > 10
        THEN Returned(FALSE, Some("Poll cannot have more than 10 options"), FALSE)
        ELSE IF channel_type \in {"dm", "group-dm"} /\ ~Truthy(channel_id)
        THEN Returned(FALSE, Some("Cannot create poll in DM channels"), FALSE)
        ELSE IF ~Truthy(channel_id)
        THEN Returned(FALSE, Some("No channel_id available"), FALSE)
        ELSE IF resp = "ack" THEN Returned(TRUE, None, TRUE)
        ELSE IF resp = "refused"
        THEN Returned(FALSE, Some("Poll creation error: <error>"), TRUE)
        ELSE Returned(FALSE, Some("HTTP error: <exception>"), TRUE)

handle_poll(task, target, channel_id, resp) ==
    LET options == task.payload.options
        channel_type == Get(task.channel, "dm")
    IN  IF resp = "escapes" THEN Raised("<exception>", TRUE)
        ELSE IF task.payload.question = ""
        THEN Returned(FALSE, Some("No poll question provided"), FALSE)
        ELSE IF options < 2
        THEN Returned(FALSE, Some("Poll requires at least 2 options"), FALSE)
        ELSE IF options > 10
        THEN Returned(FALSE, Some("Poll cannot have more than 10 options"), FALSE)
        ELSE IF channel_type \in {"dm", "group-dm"}
        THEN Returned(FALSE, Some("Cannot create poll in DM channels"), FALSE)
        ELSE IF ~Truthy(channel_id)
        THEN Returned(FALSE, Some("No channel_id available"), FALSE)
        ELSE IF resp = "ack" THEN Returned(TRUE, None, TRUE)
        ELSE IF resp = "refused"
        THEN Returned(FALSE, Some("Poll creation error: <error>"), TRUE)
        ELSE Returned(FALSE, Some("HTTP error: <exception>"), TRUE)

\* mutant: an exhausted loop is reported as a success without action
MutExhaustedLoopSucceeds(task, target, channel_id, ending) ==
    IF ending = "escapes" THEN Raised("<exception>", TRUE)
    ELSE IF task.payload.content = ""
    THEN Returned(FALSE, Some("No content prompt provided"), FALSE)
    ELSE CASE ending = "message_sent" -> Returned(TRUE, None, TRUE)
           [] ending = "skip_message" -> Returned(TRUE, None, FALSE)
           [] ending = "end_turn" -> Returned(TRUE, None, FALSE)
           [] ending = "unexpected_stop" ->
                Returned(FALSE, Some("Unexpected stop_reason: <stop_reason>"), FALSE)
           [] ending = "backend_error" -> Returned(FALSE, Some("<backend exception>"), FALSE)
           [] OTHER -> Returned(TRUE, None, FALSE)

\* ending: how the loop ends for this task and target
handle_query_for_update(task, target, channel_id, ending) ==
    IF ending = "escapes" THEN Raised("<exception>", TRUE)
    ELSE IF task.payload.content = ""
    THEN Returned(FALSE, Some("No content prompt provided"), FALSE)
    ELSE CASE ending = "message_sent" -> Returned(TRUE, None, TRUE)
           [] ending = "skip_message" -> Returned(TRUE, None, FALSE)
           [] ending = "end_turn" -> Returned(TRUE, None, FALSE)
           [] ending = "unexpected_stop" ->
                Returned(FALSE, Some("Unexpected stop_reason: <stop_reason>"), FALSE)
           [] ending = "backend_error" -> Returned(FALSE, Some("<backend exception>"), FALSE)
           [] OTHER -> Returned(FALSE, Some("max_iterations_reached"), FALSE)

\* the answers the collaborators can give a handler call of this task
\* (send_message cannot succeed without a channel_id: tool_send_message, 392)
Responses(task, channel_id) ==
    IF Get(task.type, "MESSAGE") = "QUERY-FOR-UPDATE"
    THEN IF Truthy(channel_id) THEN LoopEndings ELSE LoopEndings \ {"message_sent"}
    ELSE NetResponses

-----------------------------------------------------------------------------
(* task_types/query_for_update.py: the agentic loop, iteration by iteration *)

\* task.get('agent_params', {}).get('max_iterations', 5), and the value taken
\* for a falsy one
DefaultMaxIterations == 5

\* int(max_iterations_raw) if max_iterations_raw else 5
max_iterations(max_iterations_raw) ==
    IF max_iterations_raw = None \/ max_iterations_raw[1] = 0
    THEN DefaultMaxIterations
    ELSE max_iterations_raw[1]

\* a tool's result dict: success = result.get('success') is truthy,
\* submitted = the notification collaborator was called
ToolResult(success, error, submitted) ==
    [success |-> success, error |-> error, submitted |-> submitted]

\* a toolUse block of a backend response: input = what tool_input carries
\* ("ok", "no_content", "no_drone"), answer = what the tool's collaborator does
ToolUse(name, input, answer) == [name |-> name, input |-> input, answer |-> answer]

QueryTools == {"list_drones", "pick_random_drone", "get_drone_config", "check_stale_config"}

\* env = [channel_id, url, token]: the channel handed to the loop and the
\* module's DRONEBOT_URL and DRONEBOT_TOKEN
tool_send_message(input, env, answer) ==
    IF input = "no_content"
    THEN ToolResult(FALSE, Some("Message content is required"), FALSE)
    ELSE IF input = "no_drone"
    THEN ToolResult(FALSE, Some("drone_id is required"), FALSE)
    ELSE IF ~Truthy(env.channel_id)
    THEN ToolResult(FALSE, Some("channel_id not available"), FALSE)
    ELSE IF env.url = ""
    THEN ToolResult(FALSE, Some("DRONEBOT_URL not configured"), FALSE)
    ELSE IF env.token = ""
    THEN ToolResult(FALSE, Some("DRONEBOT_API_TOKEN not configured"), FALSE)
    ELSE CASE answer = "ack" -> ToolResult(TRUE, None, TRUE)
           [] answer = "refused" -> ToolResult(FALSE, Some("<dronebot error>"), TRUE)
           [] answer = "http_error" -> ToolResult(FALSE, Some("HTTP <code>: <body>"), TRUE)
           [] answer = "url_error" -> ToolResult(FALSE, Some("Connection error: <reason>"), TRUE)
           [] OTHER -> ToolResult(FALSE, Some("<exception>"), TRUE)  \* caught by execute_tool

\* execute_tool: every exception of a tool becomes {'error': str(e)}
execute_tool(tool_use, env) ==
    CASE tool_use.name \in QueryTools ->
            IF tool_use.answer = "data"
            THEN ToolResult(FALSE, None, FALSE)
            ELSE ToolResult(FALSE, Some("<tool error>"), FALSE)
      [] tool_use.name = "send_message" ->
            tool_send_message(tool_use.input, env, tool_use.answer)
      [] tool_use.name = "skip_message" -> ToolResult(TRUE, None, FALSE)
      [] OTHER -> ToolResult(FALSE, Some("Unknown tool: <tool_name>"), FALSE)

\* what handle_query_for_update returns
LoopReturn(success, message_sent, reason, error, iterations) ==
    [success |-> success, message_sent |-> message_sent, reason |-> reason,
     error |-> error, iterations |-> iterations]

RECURSIVE MutSkipIsNotTerminal(_, _, _, _, _)
\* mutant: skip_message is executed like a query tool and the loop goes on
MutSkipIsNotTerminal(assistant_content, j, env, i, acc) ==
    IF j > Len(assistant_content) \/ acc.ret # None THEN acc
    ELSE LET block == assistant_content[j] IN
         IF block.name = "text"
         THEN MutSkipIsNotTerminal(assistant_content, j + 1, env, i, acc)
         ELSE LET result == execute_tool(block, env)
                  ret == IF block.name = "send_message" /\ result.success
                         THEN Some(LoopReturn(TRUE, Some(TRUE), None, None, i + 1))
                         ELSE None
              IN MutSkipIsNotTerminal(assistant_content, j + 1, env, i,
                    [tool_results |-> Append(acc.tool_results,
                                             [toolUseId |-> j, tool |-> block.name,
                                              error |-> result.error]),
                     executed |-> Append(acc.executed, block.name),
                     submitted |-> acc.submitted + (IF result.submitted THEN 1 ELSE 0),
                     ret |-> ret])

RECURSIVE MutRunsEveryTool(_, _, _, _, _)
\* mutant: every tool call of the response is executed before the loop returns
MutRunsEveryTool(assistant_content, j, env, i, acc) ==
    IF j > Len(assistant_content) THEN acc
    ELSE LET block == assistant_content[j] IN
         IF block.name = "text"
         THEN MutRunsEveryTool(assistant_content, j + 1, env, i, acc)
         ELSE LET result == execute_tool(block, env)
                  ret == IF acc.ret # None THEN acc.ret
                         ELSE IF block.name = "send_message" /\ result.success
                         THEN Some(LoopReturn(TRUE, Some(TRUE), None, None, i + 1))
                         ELSE IF block.name = "skip_message"
                         THEN Some(LoopReturn(TRUE, Some(FALSE), Some("<reason>"), None, i + 1))
                         ELSE None
              IN MutRunsEveryTool(assistant_content, j + 1, env, i,
                    [tool_results |-> Append(acc.tool_results,
                                             [toolUseId |-> j, tool |-> block.name,
                                              error |-> result.error]),
                     executed |-> Append(acc.executed, block.name),
                     submitted |-> acc.submitted + (IF result.submitted THEN 1 ELSE 0),
                     ret |-> ret])

RECURSIVE run_tools(_, _, _, _, _)
\* `for block in assistant_content`, from block j on, in iteration i (0-based);
\* acc = [tool_results, executed, submitted, ret]: the results gathered, the
\* tools executed, the submissions made, and the return statement reached, if any
run_tools(assistant_content, j, env, i, acc) ==
    IF j > Len(assistant_content) \/ acc.ret # None THEN acc
    ELSE LET block == assistant_content[j] IN
         IF block.name = "text"                      \* no 'toolUse' in block
         THEN run_tools(assistant_content, j + 1, env, i, acc)
         ELSE LET result == execute_tool(block, env)
                  ret == IF block.name = "send_message" /\ result.success
                         THEN Some(LoopReturn(TRUE, Some(TRUE), None, None, i + 1))
                         ELSE IF block.name = "skip_message"
                         THEN Some(LoopReturn(TRUE, Some(FALSE), Some("<reason>"), None, i + 1))
                         ELSE None
              IN run_tools(assistant_content, j + 1, env, i,
                    [tool_results |-> Append(acc.tool_results,
                                             [toolUseId |-> j, tool |-> block.name,
                                              error |-> result.error]),
                     executed |-> Append(acc.executed, block.name),
                     submitted |-> acc.submitted + (IF result.submitted THEN 1 ELSE 0),
                     ret |-> ret])

\* mutant: the tool-result turn is not appended to the history
MutIterationDropsToolResults(st, env, response) ==
    LET called == [st EXCEPT !.seen = Append(@, st.messages)]
        i == st.i
    IN  CASE response.kind = "raise" ->
                [called EXCEPT !.ret = Some(LoopReturn(FALSE, None, None,
                                                       Some(<<"<exception>">>), i + 1))]
          [] response.stop_reason = "tool_use" ->
                LET content == response.content
                    r == run_tools(content, 1, env, i,
                                   [tool_results |-> <<>>, executed |-> <<>>,
                                    submitted |-> 0, ret |-> None])
                    with_assistant == Append(st.messages,
                                             [role |-> "assistant", content |-> content])
                IN  IF r.ret # None
                    THEN [called EXCEPT !.messages = with_assistant,
                                        !.executed = @ \o r.executed,
                                        !.submitted = @ + r.submitted,
                                        !.ret = r.ret]
                    ELSE [called EXCEPT !.messages = with_assistant,
                                        !.executed = @ \o r.executed,
                                        !.submitted = @ + r.submitted,
                                        !.i = i + 1]
          [] response.stop_reason = "end_turn" ->
                [called EXCEPT !.ret = Some(LoopReturn(TRUE, Some(FALSE),
                                               Some("llm_ended_without_action"), None, i + 1))]
          [] OTHER ->
                [called EXCEPT !.ret = Some(LoopReturn(FALSE, None, None,
                                    Some(<<"Unexpected stop_reason: ", response.stop_reason>>),
                                    i + 1))]

\* mutant: end_turn is not classified and the loop goes on
MutIterationEndTurnGoesOn(st, env, response) ==
    LET called == [st EXCEPT !.seen = Append(@, st.messages)]
        i == st.i
    IN  CASE response.kind = "raise" ->
                [called EXCEPT !.ret = Some(LoopReturn(FALSE, None, None,
                                                       Some(<<"<exception>">>), i + 1))]
          [] response.stop_reason \in {"tool_use", "end_turn"} ->
                LET content == response.content
                    r == run_tools(content, 1, env, i,
                                   [tool_results |-> <<>>, executed |-> <<>>,
                                    submitted |-> 0, ret |-> None])
                    with_assistant == Append(st.messages,
                                             [role |-> "assistant", content |-> content])
                IN  IF r.ret # None
                    THEN [called EXCEPT !.messages = with_assistant,
                                        !.executed = @ \o r.executed,
                                        !.submitted = @ + r.submitted,
                                        !.ret = r.ret]
                    ELSE [called EXCEPT !.messages = Append(with_assistant,
                                            [role |-> "user", content |-> r.tool_results]),
                                        !.executed = @ \o r.executed,
                                        !.submitted = @ + r.submitted,
                                        !.i = i + 1]
          [] OTHER ->
                [called EXCEPT !.ret = Some(LoopReturn(FALSE, None, None,
                                    Some(<<"Unexpected stop_reason: ", response.stop_reason>>),
                                    i + 1))]

\* one pass of the body of `for i in range(max_iterations)`: the loop state
\* after the backend answered `response` to the call of this iteration
\* st = [messages, i, seen, executed, submitted, ret]
iteration(st, env, response) ==
    LET called == [st EXCEPT !.seen = Append(@, st.messages)]
        i == st.i
    IN  CASE response.kind = "raise" ->
                [called EXCEPT !.ret = Some(LoopReturn(FALSE, None, None,
                                                       Some(<<"<exception>">>), i + 1))]
          [] response.stop_reason = "tool_use" ->
                LET content == response.content
                    r == run_tools(content, 1, env, i,
                                   [tool_results |-> <<>>, executed |-> <<>>,
                                    submitted |-> 0, ret |-> None])
                    with_assistant == Append(st.messages,
                                             [role |-> "assistant", content |-> content])
                IN  IF r.ret # None
                    THEN [called EXCEPT !.messages = with_assistant,
                                        !.executed = @ \o r.executed,
                                        !.submitted = @ + r.submitted,
                                        !.ret = r.ret]
                    ELSE [called EXCEPT !.messages = Append(with_assistant,
                                            [role |-> "user", content |-> r.tool_results]),
                                        !.executed = @ \o r.executed,
                                        !.submitted = @ + r.submitted,
                                        !.i = i + 1]
          [] response.stop_reason = "end_turn" ->
                [called EXCEPT !.ret = Some(LoopReturn(TRUE, Some(FALSE),
                                               Some("llm_ended_without_action"), None, i + 1))]
          [] OTHER ->
                [called EXCEPT !.ret = Some(LoopReturn(FALSE, None, None,
                                    Some(<<"Unexpected stop_reason: ", response.stop_reason>>),
                                    i + 1))]

\* mutant: the exhausted loop reports one iteration more than it made
MutExhaustedOffByOne(st, max) ==
    [st EXCEPT !.ret = Some(LoopReturn(FALSE, None, None,
                                       Some(<<"max_iterations_reached">>), st.i + 1))]

\* the return after the for loop
exhausted(st, max) ==
    [st EXCEPT !.ret = Some(LoopReturn(FALSE, None, None,
                                       Some(<<"max_iterations_reached">>), max))]

-----------------------------------------------------------------------------
(* handler.py: process_task *)

\* random.randint(0, 100)
RandMin == 0
RandMax == 100

\* mutant: the gate compares with >= for >
MutGateSkipsAtRate(task, draw) ==
    draw >= Get(task.scheduler_params.execution_rate, 100)

\* draw > execution_rate
execution_rate_skips(task, draw) ==
    draw > Get(task.scheduler_params.execution_rate, 100)

TargetResult(target, r) ==
    [target |-> target, success |-> r.success, error |-> r.error]

\* a handler call as made: ending = how the agentic loop ended in it ("" for the
\* handlers without a loop)
CallOf(handler, target, r, ending) ==
    [handler |-> handler, target |-> target, entered |-> r.entered, sent |-> r.sent,
     ending |-> ending]

\* one iteration of the per-target loop body for `target`: the result appended
\* to target_results, the handler call made, if any, whether an exception was
\* caught, and the pair resolve_channel returned
per_target_step(task, target, resp) ==
    LET task_type == Get(task.type, "MESSAGE")
        ch == resolve_channel(Get(task.channel, "dm"), target, task)
        channel_id == ch[1]
        user_id == ch[2]
    IN  IF resolve_channel_raises(Get(task.channel, "dm"), target, task)
        THEN [result |-> [target |-> target, success |-> FALSE,
                          error |-> Some("<exception>")],
              calls |-> <<>>, raises |-> <<target>>, resolved |-> <<"raised">>]
        ELSE IF ~Truthy(channel_id) /\ ~Truthy(user_id)
        THEN [result |-> [target |-> target, success |-> FALSE,
                          error |-> Some("channel_resolution_failed")],
              calls |-> <<>>, raises |-> <<>>, resolved |-> ch]
        ELSE IF task_type = "MESSAGE"
        THEN LET r == call_handle_message(<<task, target, channel_id, user_id>>, resp)
             IN [result |-> TargetResult(target, r),
                 calls |-> <<CallOf("handle_message", target, r, "")>>,
                 raises |-> IF r.raised THEN <<target>> ELSE <<>>, resolved |-> ch]
        ELSE IF task_type = "POLL"
        THEN LET r == handle_poll(task, target, channel_id, resp)
             IN [result |-> TargetResult(target, r),
                 calls |-> <<CallOf("handle_poll", target, r, "")>>,
                 raises |-> IF r.raised THEN <<target>> ELSE <<>>, resolved |-> ch]
        ELSE IF task_type = "QUERY-FOR-UPDATE"
        THEN LET r == handle_query_for_update(task, target, channel_id, resp)
             IN [result |-> TargetResult(target, r),
                 calls |-> <<CallOf("handle_query_for_update", target, r, resp)>>,
                 raises |-> IF r.raised THEN <<target>> ELSE <<>>, resolved |-> ch]
        ELSE [result |-> [target |-> target, success |-> FALSE,
                          error |-> Some("Unknown task type: <task_type>")],
              calls |-> <<>>, raises |-> <<>>, resolved |-> ch]

RECURSIVE MutLoopStopsAtFailure(_, _, _, _, _)
\* mutant: the loop is left at the first failing target
MutLoopStopsAtFailure(task, targets, env, i, acc) ==
    IF i > Len(targets) \/ ~acc.all_success THEN acc
    ELSE LET st == per_target_step(task, targets[i], env[targets[i]])
         IN MutLoopStopsAtFailure(task, targets, env, i + 1,
                [target_results |-> Append(acc.target_results, st.result),
                 all_success |-> acc.all_success /\ st.result.success,
                 calls |-> acc.calls \o st.calls,
                 raises |-> acc.raises \o st.raises,
                 resolved |-> Append(acc.resolved, st.resolved)])

RECURSIVE per_target_loop(_, _, _, _, _)
\* `for target in targets`, from targets[i] on; acc = [target_results, all_success, calls]
per_target_loop(task, targets, env, i, acc) ==
    IF i > Len(targets) THEN acc
    ELSE LET st == per_target_step(task, targets[i], env[targets[i]])
         IN per_target_loop(task, targets, env, i + 1,
                [target_results |-> Append(acc.target_results, st.result),
                 all_success |-> acc.all_success /\ st.result.success,
                 calls |-> acc.calls \o st.calls,
                 raises |-> acc.raises \o st.raises,
                 resolved |-> Append(acc.resolved, st.resolved)])

\* the public-channel branch: one handle_message call for all targets
broadcast(task, targets, resp) ==
    LET all_targets == targets      \* ' '.join(targets), as the list it joins
        r == call_handle_message(<<task, all_targets, task.channel_id, None>>, resp)
        result == IF r.raised
                  THEN [target |-> "all", success |-> FALSE, error |-> r.error]
                  ELSE [target |-> all_targets, success |-> r.success, error |-> r.error]
    IN [target_results |-> <<result>>,
        all_success |-> result.success,
        calls |-> <<CallOf("handle_message", all_targets, r, "")>>,
        raises |-> IF r.raised THEN <<"all">> ELSE <<>>,
        resolved |-> <<>>]

RECURSIVE MutJoinAllResults(_, _)
\* mutant: the message lists every target result, not the failing ones only
MutJoinAllResults(target_results, i) ==
    IF i > Len(target_results) THEN <<>>
    ELSE LET r == target_results[i]
             rest == MutJoinAllResults(target_results, i + 1)
         IN <<r.target, ": ", Get(r.error, "unknown")>>
            \o (IF rest = <<>> THEN <<>> ELSE <<"; ">> \o rest)

RECURSIVE join_errors(_, _)
\* '; '.join(f"{r['target']}: {r.get('error', 'unknown')}" for failing r), from index i,
\* as the sequence of the pieces it concatenates
join_errors(target_results, i) ==
    IF i > Len(target_results) THEN <<>>
    ELSE LET r == target_results[i]
             rest == join_errors(target_results, i + 1)
         IN IF r.success THEN rest
            ELSE <<r.target, ": ", Get(r.error, "unknown")>>
                 \o (IF rest = <<>> THEN <<>> ELSE <<"; ">> \o rest)

is_public_channel(task) ==
    Get(task.channel, "dm") \notin {"dm", "group-dm"} /\ Truthy(task.channel_id)

\* the reconciliation at the end of process_task: the store update made and the alert
reconcile(task, d, nowT) ==
    IF d.all_success
    THEN [updates |-> <<mark_task_fired(task, nowT)>>, marks |-> <<"fired">>, alerts |-> <<>>]
    ELSE LET error_msg == join_errors(d.target_results, 1)
         IN [updates |-> <<record_task_error(task, error_msg)>>,
             marks |-> <<"errored">>,
             alerts |-> <<error_msg>>]

\* mutant: a skip is recorded in the store like an error
MutSkipWritesStore ==
    [updates |-> <<[error_count |-> Some(1)]>>, marks |-> <<>>, alerts |-> <<>>]

\* the early returns: no store update, no alert
NoEffect == [updates |-> <<>>, marks |-> <<>>, alerts |-> <<>>]

\* process_task(task) for a random draw, an iteration order `targets` of the
\* expanded target set, the collaborators' answers env and the clock nowT:
\* its return value (skipped, reason, fired, error, targets) and its effects
process_task(task, draw, targets, env, nowT) ==
    IF execution_rate_skips(task, draw)
    THEN [skipped |-> TRUE, reason |-> "execution_rate", fired |-> FALSE, error |-> FALSE,
          targets |-> <<>>, path |-> "none", expanded |-> <<>>, calls |-> <<>>,
          raises |-> <<>>, resolved |-> <<>>] @@ NoEffect
    ELSE IF targets = <<>>
    THEN [skipped |-> TRUE, reason |-> "no_targets", fired |-> FALSE, error |-> FALSE,
          targets |-> <<>>, path |-> "none", expanded |-> <<>>, calls |-> <<>>,
          raises |-> <<>>, resolved |-> <<>>] @@ NoEffect
    ELSE LET bc == Get(task.type, "MESSAGE") = "MESSAGE" /\ is_public_channel(task)
             d == IF bc THEN broadcast(task, targets, env[targets[1]])
                  ELSE per_target_loop(task, targets, env, 1,
                          [target_results |-> <<>>, all_success |-> TRUE, calls |-> <<>>,
                           raises |-> <<>>, resolved |-> <<>>])
         IN [skipped |-> FALSE, reason |-> "", fired |-> d.all_success,
             error |-> ~d.all_success, targets |-> d.target_results,
             path |-> IF bc THEN "broadcast" ELSE "per_target",
             expanded |-> targets, calls |-> d.calls, raises |-> d.raises,
             resolved |-> d.resolved]
            @@ reconcile(task, d, nowT)

-----------------------------------------------------------------------------
(* The tasks explored *)

TaskIds == {"t1", "t2"}

\* the membership collaborator's answers, per role
Roles == {"hive"}
RoleAnswers ==
    {[raised |-> TRUE, statusCode |-> 0, members |-> <<>>],
     [raised |-> FALSE, statusCode |-> 200, members |-> <<"0x02", "0x01">>],
     [raised |-> FALSE, statusCode |-> 500, members |-> <<>>]}
Lookups == [Roles -> RoleAnswers]

\* the clock at the start: a Wednesday, 09:30 and a bit
StartTime == 2 * Day + 9 * Hour + 30 * Minute + 1

\* how far the clock advances between two observations
TickSteps == {45 * Minute, Day}

\* an active POLL task to one target on a resolved public channel, due since an
\* hour, repeating every 60 minutes without limit
BaseItem(id, start) ==
    [task_id |-> id, target |-> "0x01",
     status |-> "active",
     next_fire |-> Some(isoformat(start - Hour)),
     last_fired |-> None,
     error_count |-> Some(0),
     last_error |-> None,
     scheduler_params |-> [repeat_interval |-> Some(60), num_repeats |-> Some(0),
                           repeats_executed |-> Some(0), execution_rate |-> None],
     recurring |-> None, schedule_time |-> None,
     type |-> Some("POLL"), targets |-> <<"0x01">>,
     channel |-> Some("general"), channel_id |-> Some("555"),
     assignee |-> "void-mother",
     payload |-> [content |-> "remind", question |-> "Q?", options |-> 2]]

\* the base item with its scheduling state and configuration varied
SchedVariants(b, start) ==
    {b,
     [b EXCEPT !.status = "inactive"],
     [b EXCEPT !.status = "inactive", !.next_fire = None],
     [b EXCEPT !.next_fire = None],
     [b EXCEPT !.next_fire = Some(isoformat(start))],
     [b EXCEPT !.next_fire = Some(isoformat(start + 45 * Minute))],
     [b EXCEPT !.error_count = None],
     [b EXCEPT !.error_count = Some(2), !.last_error = Some(<<"0x01", ": ", "old">>)],
     [b EXCEPT !.recurring = Some("hourly")],
     [b EXCEPT !.recurring = Some("daily")],
     [b EXCEPT !.recurring = Some("daily"), !.schedule_time = Some("09:30")],
     [b EXCEPT !.recurring = Some("weekly:wednesday")],
     [b EXCEPT !.recurring = Some("weekly:wednesday"), !.schedule_time = Some("12:00")],
     [b EXCEPT !.recurring = Some("hourly"), !.scheduler_params.repeat_interval = Some(0)],
     [b EXCEPT !.scheduler_params.repeat_interval = None],
     [b EXCEPT !.scheduler_params.repeat_interval = Some(0)],
     [b EXCEPT !.scheduler_params.repeat_interval = Some(0),
               !.scheduler_params.execution_rate = Some(50)],
     [b EXCEPT !.scheduler_params.num_repeats = Some(1)],
     [b EXCEPT !.scheduler_params.num_repeats = Some(2),
               !.scheduler_params.repeats_executed = None],
     [b EXCEPT !.scheduler_params.num_repeats = Some(3),
               !.scheduler_params.repeats_executed = Some(2)],
     [b EXCEPT !.scheduler_params.num_repeats = Some(3),
               !.scheduler_params.repeats_executed = Some(2),
               !.scheduler_params.repeat_interval = Some(0)],
     [b EXCEPT !.scheduler_params.num_repeats = None],
     [b EXCEPT !.scheduler_params.execution_rate = Some(0)],
     [b EXCEPT !.scheduler_params.execution_rate = Some(50)],
     [b EXCEPT !.scheduler_params.execution_rate = Some(50),
               !.scheduler_params.num_repeats = Some(2)],
     [b EXCEPT !.scheduler_params.execution_rate = Some(100)],
     [b EXCEPT !.targets = <<>>],
     [b EXCEPT !.targets = <<"role:hive">>, !.error_count = Some(2)]}

\* the base item with its type, channel, targets and payload varied
DispatchVariants(b) ==
    {[b EXCEPT !.type = ty, !.channel = ch, !.channel_id = cid, !.targets = tg] :
        ty \in {None, Some("MESSAGE"), Some("POLL"), Some("QUERY-FOR-UPDATE"), Some("REPORT")},
        ch \in {None, Some(""), Some("dm"), Some("group-dm"), Some("123456"), Some("general")},
        cid \in {None, Some("555")},
        tg \in {<<>>, <<"0x01", "">>, <<"0x01", "role:hive", "0x01">>, <<"role:hive">>,
                <<"0x01", "0x02">>}}
    \cup {[b EXCEPT !.payload.question = ""],
          [b EXCEPT !.payload.options = 1],
          [b EXCEPT !.payload.options = 11],
          [b EXCEPT !.type = Some("QUERY-FOR-UPDATE"), !.payload.content = ""],
          [b EXCEPT !.type = Some("MESSAGE"), !.channel = Some("dm"), !.channel_id = None,
                    !.payload.content = ""],
          [b EXCEPT !.type = Some("MESSAGE"), !.channel = Some("dm"), !.channel_id = None,
                    !.assignee = "0xdead"],
          [b EXCEPT !.channel = Some("Decimal(7)"), !.channel_id = None,
                    !.targets = <<"0x01", "0x02">>],
          [b EXCEPT !.type = Some("QUERY-FOR-UPDATE"), !.channel = Some("Decimal(7)"),
                    !.targets = <<"0x01", "0x02">>]}

-----------------------------------------------------------------------------
(* handler.py: alert_cpu_errors, and the table's answers *)

\* what the alert collaborator does with POST /post/error; "raised": the
\* request ends by HTTPError, URLError or another exception; "not_configured":
\* DRONEBOT_URL or DRONEBOT_API_TOKEN is empty
AlertAnswers == {"ack", "refused", "raised", "not_configured"}

\* mutant: an exception of the request leaves alert_cpu_errors
MutAlertLetsExceptionOut(task, error_message, alert_answer) ==
    [task_id |-> task.task_id, error_message |-> error_message,
     requested |-> alert_answer # "not_configured",
     posted |-> alert_answer = "ack",
     raised |-> alert_answer = "raised"]

\* alert_cpu_errors(task, error_message): it returns None whatever happens
\* (every exception of the request is caught); requested = the POST was made,
\* posted = the collaborator accepted it
alert_cpu_errors(task, error_message, alert_answer) ==
    [task_id |-> task.task_id, error_message |-> error_message,
     requested |-> alert_answer # "not_configured",
     posted |-> alert_answer = "ack",
     raised |-> FALSE]

\* what table.update_item does: it answers, or raises (ClientError, timeout)
StoreAnswers == {"ok", "raised"}

-----------------------------------------------------------------------------
(* The scheduler as a state machine *)

\* every order in which a list built from the set S can enumerate it
Orders(S) ==
    {o \in [1..Cardinality(S) -> S] : \A i, j \in 1..Cardinality(S) : i # j => o[i] # o[j]}

NoCall ==
    [task_id |-> "", skipped |-> FALSE, reason |-> "", fired |-> FALSE, error |-> FALSE,
     targets |-> <<>>, path |-> "none", expanded |-> <<>>, calls |-> <<>>,
     raises |-> <<>>, resolved |-> <<>>, aborted |-> FALSE, alert_calls |-> <<>>] @@ NoEffect

NoResults == [processed |-> 0, fired |-> 0, skipped |-> 0, errors |-> 0, tasks |-> <<>>]

IdleCalc == [from_date |-> 0, recurring |-> "", preferred_time |-> None,
             out |-> None, done |-> TRUE]
IdleExpn == [targets |-> <<>>, lookup |-> [r \in Roles |-> CHOOSE a \in RoleAnswers : a.raised],
             out |-> {}, done |-> TRUE]

\* no loop under way
IdleLoop ==
    [max_iterations_raw |-> None, prompt |-> "", env |-> [channel_id |-> None, url |-> "", token |-> ""],
     pc |-> "idle", max |-> 0, messages |-> <<>>, i |-> 0, seen |-> <<>>, answers |-> <<>>,
     executed |-> <<>>, submitted |-> 0, ret |-> None]

\* what every specification starts from, the table apart
InitRest ==
    /\ ticks = 0
    /\ runs = 0
    /\ pc = "idle"
    /\ queue = <<>>
    /\ results = NoResults
    /\ last = NoCall
    /\ outcome = [id \in TaskIds |-> "none"]
    /\ firedCount = [id \in TaskIds |-> 0]
    /\ failStreak = [id \in TaskIds |-> 0]
    /\ errBase = [id \in TaskIds |-> Get(store[id].error_count, 0)]

\* t1 with its scheduling varied, beside t2, a poll addressed to a DM channel
Init ==
    /\ now = StartTime
    /\ \E i1 \in SchedVariants(BaseItem("t1", StartTime), StartTime) :
        store = [id \in TaskIds |-> IF id = "t1" THEN i1
                 ELSE [BaseItem("t2", StartTime) EXCEPT !.channel = Some("dm")]]
    /\ InitRest
    /\ calc = IdleCalc
    /\ expn = IdleExpn
    /\ loop = IdleLoop

\* t1 with its type, channel, targets and payload varied, beside a dormant t2
InitDispatch ==
    /\ now = StartTime
    /\ \E i1 \in DispatchVariants(BaseItem("t1", StartTime)),
          ec \in {None, Some(0), Some(2)} :
        store = [id \in TaskIds |-> IF id = "t1" THEN [i1 EXCEPT !.error_count = ec]
                 ELSE [BaseItem("t2", StartTime) EXCEPT !.status = "inactive"]]
    /\ InitRest
    /\ calc = IdleCalc
    /\ expn = IdleExpn
    /\ loop = IdleLoop

\* the clock advances (at any point of a run as well)
Tick ==
    /\ ticks < MaxTicks
    /\ \E step \in TickSteps : now' = now + step
    /\ ticks' = ticks + 1
    /\ UNCHANGED <<store, runs, pc, queue, results, last, outcome, firedCount,
                   failStreak, errBase, calc, expn, loop>>

\* handler(): the scan; due_tasks holds the items as read, in the order returned
StartRun ==
    /\ pc = "idle"
    /\ runs < MaxRuns
    /\ runs' = runs + 1
    /\ pc' = "running"
    /\ \E o \in Orders(get_due_tasks(store, now)) :
            queue' = [i \in 1..Len(o) |-> store[o[i]]]
    /\ results' = NoResults
    /\ UNCHANGED <<store, now, ticks, last, outcome, firedCount, failStreak, errBase,
                   calc, expn, loop>>

\* the effects of one process_task call r on task, and the handler's bookkeeping,
\* when the table answers the update (if one is made) with store_answer and the
\* alert collaborator answers the alert (if one is made) with alert_answer.
\* An exception of update_item passes through update_task, mark_task_fired or
\* record_task_error, process_task and handler: nothing after it is executed.
ApplyWith(task, r, store_answer, alert_answer) ==
    LET id == task.task_id IN
    IF r.updates # <<>> /\ store_answer = "raised"
    THEN /\ pc' = "aborted"
         /\ last' = [task_id |-> id, aborted |-> TRUE, alert_calls |-> <<>>]
                     @@ [r EXCEPT !.fired = FALSE, !.error = FALSE, !.updates = <<>>,
                                  !.marks = <<>>, !.alerts = <<>>]
         /\ UNCHANGED <<store, now, ticks, runs, queue, results, outcome, firedCount,
                        failStreak, errBase, calc, expn, loop>>
    ELSE
    LET alert_calls == [k \in 1..Len(r.alerts) |->
                            alert_cpu_errors(task, r.alerts[k], alert_answer)]
        escaped == \E k \in 1..Len(alert_calls) : alert_calls[k].raised
    IN
    /\ store' = IF r.updates = <<>> THEN store
                ELSE [store EXCEPT ![id] = update_task(store[id], r.updates[1])]
    /\ last' = [task_id |-> id, aborted |-> escaped, alert_calls |-> alert_calls] @@ r
    /\ pc' = IF escaped THEN "aborted" ELSE pc
    /\ queue' = IF escaped THEN queue ELSE Tail(queue)
    /\ results' = IF escaped THEN results ELSE
                  [processed |-> results.processed + 1,
                   fired |-> results.fired + (IF r.fired THEN 1 ELSE 0),
                   skipped |-> results.skipped + (IF ~r.fired /\ r.skipped THEN 1 ELSE 0),
                   errors |-> results.errors
                              + (IF ~r.fired /\ ~r.skipped /\ r.error THEN 1 ELSE 0),
                   tasks |-> Append(results.tasks,
                                    [task_id |-> id, fired |-> r.fired,
                                     skipped |-> r.skipped, error |-> r.error])]
    /\ outcome' = [outcome EXCEPT ![id] =
                      IF r.skipped THEN "skipped" ELSE IF r.fired THEN "fired" ELSE "errored"]
    /\ firedCount' = [firedCount EXCEPT ![id] = @ + (IF r.marks = <<"fired">> THEN 1 ELSE 0)]
    /\ failStreak' = [failStreak EXCEPT ![id] =
                         IF r.skipped THEN @ ELSE IF r.fired THEN 0 ELSE @ + 1]
    /\ errBase' = [errBase EXCEPT ![id] = IF r.fired THEN 0 ELSE @]
    /\ UNCHANGED <<now, ticks, runs, calc, expn, loop>>

\* one iteration of `for task in due_tasks`: process_task and the summary
\* update, with the table answering in StoreAns and the alert collaborator in
\* AlertAns
ProcessTaskWith(StoreAns, AlertAns) ==
    /\ pc = "running"
    /\ queue # <<>>
    /\ \E store_answer \in StoreAns, alert_answer \in AlertAns :
       LET task == Head(queue)
           Draws == RandMin..RandMax
           channel_id == resolve_channel(Get(task.channel, "dm"), "", task)[1]
       IN
        \/ /\ {d \in Draws : execution_rate_skips(task, d)} # {}
           /\ ApplyWith(task, process_task(task,
                            CHOOSE d \in Draws : execution_rate_skips(task, d),
                            <<>>, <<>>, now), store_answer, alert_answer)
        \/ /\ {d \in Draws : ~execution_rate_skips(task, d)} # {}
           /\ \E expanded \in {expand_targets(task.targets, lookup) : lookup \in Lookups} :
              \E targets \in Orders(expanded) :
              \E env \in [expanded -> Responses(task, channel_id)] :
                ApplyWith(task, process_task(task,
                                CHOOSE d \in Draws : ~execution_rate_skips(task, d),
                                targets, env, now), store_answer, alert_answer)

\* the iteration when the table answers every update and the alert is accepted
ProcessTask == ProcessTaskWith({"ok"}, {"ack"})

\* the loop is over: the handler returns its summary
EndRun ==
    /\ pc = "running"
    /\ queue = <<>>
    /\ pc' = "idle"
    /\ UNCHANGED <<store, now, ticks, runs, queue, results, last, outcome, firedCount,
                   failStreak, errBase, calc, expn, loop>>

Next == Tick \/ StartRun \/ ProcessTask \/ EndRun

Spec == Init /\ [][Next]_vars

\* the runs of one instant: the clock stands still
NextDispatch == StartRun \/ ProcessTask \/ EndRun

SpecDispatch == InitDispatch /\ [][NextDispatch]_vars

-----------------------------------------------------------------------------
(* The scheduler when the table and the alert collaborator can fail *)

\* t1: a poll to two targets in mode dm (both fail), and a poll without targets
FaultVariants(b) ==
    {[b EXCEPT !.targets = <<"0x01", "0x02">>, !.channel = Some("dm")],
     [b EXCEPT !.targets = <<>>]}

\* t1 varied, beside t2, a due poll to one target on a public channel
InitFaults ==
    /\ now = StartTime
    /\ \E i1 \in FaultVariants(BaseItem("t1", StartTime)) :
        store = [id \in TaskIds |-> IF id = "t1" THEN i1 ELSE BaseItem("t2", StartTime)]
    /\ InitRest
    /\ calc = IdleCalc
    /\ expn = IdleExpn
    /\ loop = IdleLoop

\* the iteration with every answer of the table and of the alert collaborator
ProcessTaskFaulty == ProcessTaskWith(StoreAnswers, AlertAnswers)

\* the invocation ends with the exception: no summary is returned, the rest of
\* due_tasks is dropped
RunRaises ==
    /\ pc = "aborted"
    /\ pc' = "idle"
    /\ queue' = <<>>
    /\ UNCHANGED <<store, now, ticks, runs, results, last, outcome, firedCount,
                   failStreak, errBase, calc, expn, loop>>

NextFaults == StartRun \/ ProcessTaskFaulty \/ EndRun \/ RunRaises

SpecFaults == InitFaults /\ [][NextFaults]_vars

-----------------------------------------------------------------------------
(* The recurrence calculator as a pure function *)

\* times of day sampled around the preferred times and the day's ends
SampleTimesOfDay ==
    {0, 1, 9 * Hour + 30 * Minute, 9 * Hour + 30 * Minute + 1, 12 * Hour - 1, 12 * Hour,
     23 * Hour + 59 * Minute, Day - 1}

Patterns ==
    {"hourly", "daily", "weekly:sunday", "weekly:monday", "weekly:tuesday",
     "weekly:wednesday", "weekly:Wednesday", "weekly:thursday", "weekly:friday",
     "weekly:saturday", "weekly:funday"}

PreferredTimes == {None, Some("00:00"), Some("09:30"), Some("12:00"), Some("23:59")}

\* every instant of a week for weekly:wednesday without a preferred time;
\* sampled instants of every weekday for every pattern and preferred time
RecurInputs ==
    {[from_date |-> t, recurring |-> "weekly:wednesday", preferred_time |-> None,
      out |-> None, done |-> FALSE] : t \in 0..(Week - 1)}
    \cup
    {[from_date |-> d * Day + tod, recurring |-> r, preferred_time |-> p,
      out |-> None, done |-> FALSE] :
        d \in 0..6, tod \in SampleTimesOfDay, r \in Patterns, p \in PreferredTimes}

InitRecur ==
    /\ now = StartTime
    /\ store = [id \in TaskIds |-> BaseItem(id, StartTime)]
    /\ InitRest
    /\ calc \in RecurInputs
    /\ expn = IdleExpn
    /\ loop = IdleLoop

Compute ==
    /\ ~calc.done
    /\ calc' = [calc EXCEPT
                  !.out = Some(calculate_recurring_next_fire(calc.from_date, calc.recurring,
                                                             calc.preferred_time)),
                  !.done = TRUE]
    /\ UNCHANGED <<store, now, ticks, runs, pc, queue, results, last, outcome,
                   firedCount, failStreak, errBase, expn, loop>>

SpecRecur == InitRecur /\ [][Compute]_vars

-----------------------------------------------------------------------------
(* The target expander as a pure function *)

\* longest raw target list explored
MaxTargets == 3

RawTargets == {"0x01", "0x02", "role:hive", ""}

RawTargetLists == UNION {[1..n -> RawTargets] : n \in 0..MaxTargets}

InitExpand ==
    /\ now = StartTime
    /\ store = [id \in TaskIds |-> BaseItem(id, StartTime)]
    /\ InitRest
    /\ calc = IdleCalc
    /\ \E tg \in RawTargetLists, lookup \in Lookups :
        expn = [targets |-> tg, lookup |-> lookup, out |-> {}, done |-> FALSE]
    /\ loop = IdleLoop

Expand ==
    /\ ~expn.done
    /\ expn' = [expn EXCEPT !.out = expand_targets(expn.targets, expn.lookup),
                            !.done = TRUE]
    /\ UNCHANGED <<store, now, ticks, runs, pc, queue, results, last, outcome,
                   firedCount, failStreak, errBase, calc, loop>>

SpecExpand == InitExpand /\ [][Expand]_vars

-----------------------------------------------------------------------------
(* The agentic loop of handle_query_for_update as a state machine *)

Text == ToolUse("text", "ok", "data")
ListDrones == ToolUse("list_drones", "ok", "data")
ConfigOfNoDrone == ToolUse("get_drone_config", "no_drone", "error")
NoSuchTool == ToolUse("nosuch_tool", "ok", "data")
SendAccepted == ToolUse("send_message", "ok", "ack")
SendNoContent == ToolUse("send_message", "no_content", "ack")
SendHttpError == ToolUse("send_message", "ok", "http_error")
SendRaises == ToolUse("send_message", "ok", "raised")
SkipMessage == ToolUse("skip_message", "ok", "data")

Answer(stop_reason, content) ==
    [kind |-> "answer", stop_reason |-> stop_reason, content |-> content]

\* what the reasoning backend can do with one converse call
BackendResponses ==
    {[kind |-> "raise", stop_reason |-> "", content |-> <<>>],
     Answer("end_turn", <<Text>>),
     Answer("max_tokens", <<Text>>),
     Answer("content_filtered", <<>>)}
    \cup {Answer("tool_use", c) :
            c \in {<<Text, ListDrones>>, <<NoSuchTool>>, <<ConfigOfNoDrone>>,
                   <<SendHttpError>>, <<SendNoContent, SendRaises>>,
                   <<SendAccepted>>, <<ListDrones, SendAccepted>>,
                   <<SkipMessage>>, <<SkipMessage, SendAccepted>>,
                   <<SendAccepted, SkipMessage>>, <<SendHttpError, SkipMessage>>}}

\* channel and configuration the loop runs with
Configured == [channel_id |-> Some("555"), url |-> "http://localhost:3000", token |-> "tok"]
LoopEnvs ==
    {Configured,
     [Configured EXCEPT !.channel_id = None],
     [Configured EXCEPT !.token = ""]}

\* agent_params.max_iterations as configured: absent, or a number
MaxIterationsRaws == {None, Some(0), Some(1), Some(2), Some(3), Some(-2)}

\* the task-targets explored: every configured bound in every environment,
\* and a task without prompt
LoopInputs ==
    {[max_iterations_raw |-> raw, prompt |-> "check configs", env |-> env] :
        raw \in MaxIterationsRaws, env \in LoopEnvs}
    \cup {[max_iterations_raw |-> None, prompt |-> "", env |-> Configured]}

InitLoop ==
    /\ now = StartTime
    /\ store = [id \in TaskIds |-> BaseItem(id, StartTime)]
    /\ InitRest
    /\ calc = IdleCalc
    /\ expn = IdleExpn
    /\ \E inp \in LoopInputs :
        loop = [IdleLoop EXCEPT !.max_iterations_raw = inp.max_iterations_raw,
                                !.prompt = inp.prompt, !.env = inp.env, !.pc = "start"]

\* handle_query_for_update up to the for statement
LoopEnter ==
    /\ loop.pc = "start"
    /\ loop' = IF loop.prompt = ""
               THEN [loop EXCEPT !.pc = "done",
                                 !.max = max_iterations(loop.max_iterations_raw),
                                 !.ret = Some(LoopReturn(FALSE, None, None,
                                              Some(<<"No content prompt provided">>), 0))]
               ELSE [loop EXCEPT !.pc = "loop",
                                 !.max = max_iterations(loop.max_iterations_raw),
                                 !.messages = <<[role |-> "user", content |-> <<loop.prompt>>]>>]
    /\ UNCHANGED <<store, now, ticks, runs, pc, queue, results, last, outcome,
                   firedCount, failStreak, errBase, calc, expn>>

\* one iteration: the backend call, its classification, the tools it asks for
LoopIteration ==
    /\ loop.pc = "loop"
    /\ loop.i < loop.max
    /\ \E response \in BackendResponses :
        LET st == iteration(loop, loop.env, response)
        IN loop' = [st EXCEPT !.answers = Append(@, response),
                              !.pc = IF st.ret # None THEN "done" ELSE "loop"]
    /\ UNCHANGED <<store, now, ticks, runs, pc, queue, results, last, outcome,
                   firedCount, failStreak, errBase, calc, expn>>

\* range(max_iterations) is used up
LoopExhausted ==
    /\ loop.pc = "loop"
    /\ loop.i >= loop.max
    /\ loop' = [exhausted(loop, loop.max) EXCEPT !.pc = "done"]
    /\ UNCHANGED <<store, now, ticks, runs, pc, queue, results, last, outcome,
                   firedCount, failStreak, errBase, calc, expn>>

NextLoop == LoopEnter \/ LoopIteration \/ LoopExhausted

SpecLoop == InitLoop /\ [][NextLoop]_vars

\* the handler runs on: every statement it reaches is executed, and every call
\* to a collaborator returns or raises (the clients' timeouts)
SpecLoopFair == SpecLoop /\ WF_vars(NextLoop)

-----------------------------------------------------------------------------
(* Properties *)

\* this step is the process_task call of the handler loop on task id
ProcStep(id) ==
    /\ pc = "running" /\ queue # <<>>
    /\ Head(queue).task_id = id
    /\ queue' = Tail(queue)

\* this step is the scan of a new run
ScanStep == pc = "idle" /\ pc' = "running"

Queued(q, id) == \E i \in 1..Len(q) : q[i].task_id = id

FromIso(s) == s[1] * Day + s[2] * Hour + s[3] * Minute + s[4]

\* C1 (as amended): a run that ends a task in failure changes only error_count
\* and last_error of its item; next_fire, status, last_fired and repeats_executed
\* keep their values, the task is still active and due, the next scan selects it
\* again, and that run dispatches it again unless its execution_rate draw skips it.
C1_ErrorKeepsSchedule ==
    [][\A id \in TaskIds :
        /\ (ProcStep(id) /\ last'.error) =>
              /\ store'[id] = [store[id] EXCEPT !.error_count = store'[id].error_count,
                                                !.last_error = store'[id].last_error]
              /\ store'[id].next_fire = store[id].next_fire
              /\ store'[id].status = "active"
              /\ store'[id].last_fired = store[id].last_fired
              /\ store'[id].scheduler_params.repeats_executed
                    = store[id].scheduler_params.repeats_executed
              /\ store'[id].next_fire # None
              /\ StrLte(store'[id].next_fire[1], isoformat(now'))
        /\ (ScanStep /\ outcome[id] = "errored") => Queued(queue', id)
        /\ (ProcStep(id) /\ outcome[id] = "errored") =>
              \/ ~last'.skipped /\ last'.targets # <<>>
              \/ last'.skipped /\ last'.reason = "execution_rate"
      ]_vars

\* C1 witness: t1 ended a run in failure and the next run has selected it again
C1_Witness ==
    /\ outcome["t1"] = "errored"
    /\ runs >= 2
    /\ pc = "running"
    /\ Queued(queue, "t1")
    /\ store["t1"].next_fire # None

\* C1 as stated: the run after a failing run always dispatches the task again
C1_RetryAlwaysDispatched ==
    [][\A id \in TaskIds :
        (ProcStep(id) /\ outcome[id] = "errored") => ~last'.skipped]_vars

\* C2: every run that ends a task in failure adds exactly 1 to its error_count,
\* however many targets failed; after k consecutive failing runs error_count is
\* its value at the start of the streak plus k.
C2_ErrorCountAccumulates ==
    \A id \in TaskIds :
        Get(store[id].error_count, 0) = errBase[id] + failStreak[id]

\* C2 witness: three failing runs in a row on a task that started at 2, the last
\* of them with two failing targets
C2_Witness ==
    /\ failStreak["t1"] = 3
    /\ errBase["t1"] = 2
    /\ store["t1"].error_count = Some(5)
    /\ last.task_id = "t1"
    /\ Len(last.targets) = 2
    /\ \A i \in 1..2 : ~last.targets[i].success

\* C3: when every target result succeeds the reconciler makes exactly one store
\* update of the task, which sets repeats_executed + 1, error_count 0, last_error
\* none, last_fired now, status and next_fire together; an item never changes in
\* any other way than by this update or by the two-field error update.
C3_FiredUpdateAtomic ==
    [][\A id \in TaskIds :
        /\ (ProcStep(id) /\ last'.fired) =>
              /\ Len(last'.updates) = 1
              /\ store'[id] =
                    [store[id] EXCEPT
                        !.scheduler_params.repeats_executed = Some(Get(@, 0) + 1),
                        !.error_count = Some(0),
                        !.last_error = None,
                        !.last_fired = Some(isoformat(now)),
                        !.status = last'.updates[1].status,
                        !.next_fire = last'.updates[1].next_fire]
        /\ store'[id] # store[id] =>
              /\ ProcStep(id)
              /\ Len(last'.updates) = 1
              /\ \/ last'.fired /\ store'[id].error_count = Some(0)
                                /\ store'[id].last_error = None
                                /\ store'[id].last_fired = Some(isoformat(now))
                 \/ last'.error /\ store'[id].last_fired = store[id].last_fired
                                /\ store'[id].scheduler_params = store[id].scheduler_params
      ]_vars

\* C3 witness: t1, which had failed twice before, has just fired
C3_Witness ==
    /\ last.task_id = "t1" /\ last.fired
    /\ errBase["t1"] = 0 /\ firedCount["t1"] = 1
    /\ store["t1"].error_count = Some(0)
    /\ store["t1"].last_error = None
    /\ store["t1"].last_fired = Some(isoformat(now))
    /\ store["t1"].scheduler_params.repeats_executed = Some(1)
    /\ runs = 3

\* C4: a step turns a task from active to inactive if and only if it is a
\* successful firing with num_repeats > 0 and repeats_executed + 1 >= num_repeats,
\* and then next_fire becomes none; no other step changes status.
C4_InactiveTransition ==
    [][\A id \in TaskIds :
        LET sp == store[id].scheduler_params
            goesInactive == store[id].status = "active" /\ store'[id].status = "inactive"
            rule == /\ Get(sp.num_repeats, 0) > 0
                    /\ Get(sp.repeats_executed, 0) + 1 >= Get(sp.num_repeats, 0)
        IN  /\ goesInactive <=> (ProcStep(id) /\ last'.fired /\ rule)
            /\ goesInactive => /\ store'[id].next_fire = None
                               /\ store'[id].scheduler_params.repeats_executed
                                     = Some(Get(sp.repeats_executed, 0) + 1)
            /\ store'[id].status # store[id].status => goesInactive
      ]_vars

\* C4 witness: num_repeats = 3, repeats_executed = 2, one successful firing
C4_Witness ==
    /\ store["t1"].scheduler_params.num_repeats = Some(3)
    /\ store["t1"].scheduler_params.repeats_executed = Some(3)
    /\ firedCount["t1"] = 1
    /\ store["t1"].status = "inactive"
    /\ store["t1"].next_fire = None

\* C5: an inactive task is never selected by a scan, never processed, and none
\* of its stored fields changes.
C5_InactiveTerminal ==
    [][\A id \in TaskIds :
        store[id].status = "inactive" =>
            /\ store'[id] = store[id]
            /\ ~Queued(queue', id)
            /\ ~ProcStep(id)
      ]_vars

\* C5 witness: t1 went inactive by firing and a later run is under way
C5_Witness ==
    /\ store["t1"].status = "inactive"
    /\ firedCount["t1"] >= 1
    /\ store["t1"].last_fired # None
    /\ StrLte(store["t1"].last_fired[1], isoformat(now))
    /\ runs = 3
    /\ pc = "running"
    /\ queue # <<>>

\* C6: a task without recurring pattern and with repeat_interval = 0 that has
\* fired has next_fire = none, has fired once only, and is not selected again.
C6_ZeroIntervalOneShot ==
    \A id \in TaskIds :
        (/\ store[id].recurring = None
         /\ store[id].scheduler_params.repeat_interval = Some(0)
         /\ firedCount[id] >= 1) =>
            /\ store[id].next_fire = None
            /\ firedCount[id] = 1
            /\ ~Queued(queue, id)
            /\ id \notin get_due_tasks(store, now)

\* C6 witness: such a task, still active, fired in the first run; the clock has
\* advanced and two more runs have been made
C6_Witness ==
    /\ store["t1"].recurring = None
    /\ store["t1"].scheduler_params.repeat_interval = Some(0)
    /\ store["t1"].status = "active"
    /\ firedCount["t1"] = 1
    /\ ticks = MaxTicks
    /\ runs = 3
    /\ pc = "idle"

\* C7: for weekly:wednesday without preferred time, from every instant of the
\* week, next_fire falls on a Wednesday (day number 2 modulo 7, day 0 being a
\* Monday), is strictly after now, and is at least 1 and at most 7 days after now.
C7_NextWednesday ==
    (/\ calc.done
     /\ calc.recurring = "weekly:wednesday"
     /\ calc.preferred_time = None) =>
        LET out == calc.out[1] IN
        /\ out[1] % 7 = 2
        /\ ~StrLte(out, isoformat(calc.from_date))
        /\ FromIso(out) - calc.from_date >= Day
        /\ FromIso(out) - calc.from_date <= 7 * Day

\* C7 witness: now is itself a Wednesday (the runtime's weekday 2, day 3 counting
\* from Sunday) and the result is the Wednesday a week later
C7_Witness ==
    /\ calc.done
    /\ calc.recurring = "weekly:wednesday"
    /\ calc.preferred_time = None
    /\ weekday(calc.from_date) = 2
    /\ calc.from_date % Day = 17 * Hour + 1
    /\ FromIso(calc.out[1]) = calc.from_date + 7 * Day

\* the concrete IDs of a raw list
ConcreteIds(targets) == {targets[i] : i \in {j \in 1..Len(targets) : ~IsRoleRef(targets[j])}}

\* the members the lookup resolves the referenced roles to
RoleMembers(targets, lookup) ==
    UNION {{lookup[r].members[k] : k \in 1..Len(lookup[r].members)} :
             r \in {role_name(targets[i]) :
                      i \in {j \in 1..Len(targets) : IsRoleRef(targets[j])}}}

\* C8: target expansion returns every concrete ID of the raw list together with
\* every member of every referenced role; ["0x01", "role:hive", "0x01"] with hive
\* resolved to {"0x02", "0x01"} gives {"0x01", "0x02"}.
C8_ExpansionComplete ==
    (expn.done /\ \A r \in Roles : expn.lookup[r].statusCode = 200) =>
        expn.out = ConcreteIds(expn.targets) \cup RoleMembers(expn.targets, expn.lookup)

\* does the channel of this task resolve for this target?
Resolvable(item, target) ==
    \/ item.channel_id # None /\ item.channel_id # Some("")
    \/ Get(item.channel, "dm") = "123456"
    \/ Get(item.channel, "dm") = "dm" /\ target # ""

HasHandler(item) == Get(item.type, "MESSAGE") \in {"MESSAGE", "POLL", "QUERY-FOR-UPDATE"}

\* C9 (what the loop guarantees): on the per-target path every expanded target
\* gets exactly one result; a target whose channel does not resolve gets
\* channel_resolution_failed and no handler call; the call statement of the
\* task's handler is executed once for every other target, wherever the failing
\* targets stand in the order. Whether the call enters the handler is not part
\* of this property.
C9_PerTargetIsolation ==
    last.path = "per_target" =>
        LET item == store[last.task_id]
            n == Len(last.expanded)
            CallsFor(t) == {k \in 1..Len(last.calls) : last.calls[k].target = t}
        IN  /\ n >= 1
            /\ Len(last.targets) = n
            /\ \A i, j \in 1..n : i # j => last.expanded[i] # last.expanded[j]
            /\ \A i \in 1..n :
                LET t == last.expanded[i] IN
                /\ last.targets[i].target = t
                /\ (~Resolvable(item, t)
                    /\ ~resolve_channel_raises(Get(item.channel, "dm"), t, item)) =>
                      /\ last.targets[i].error = Some("channel_resolution_failed")
                      /\ ~last.targets[i].success
                      /\ CallsFor(t) = {}
                /\ (Resolvable(item, t) /\ HasHandler(item)) =>
                      /\ Cardinality(CallsFor(t)) = 1
                      /\ last.targets[i].error # Some("channel_resolution_failed")

\* C9 witness: the first target's channel does not resolve, the handler is
\* called for the second and succeeds
C9_Witness ==
    /\ last.path = "per_target"
    /\ Len(last.expanded) = 2
    /\ last.targets[1].error = Some("channel_resolution_failed")
    /\ last.targets[2].success
    /\ Len(last.calls) = 1
    /\ last.calls[1].target = last.expanded[2]
    /\ last.calls[1].entered

\* C9 as stated: on the per-target path the handler is invoked (its body runs)
\* for every target whose channel resolves, whichever other targets failed.
C9_HandlerInvokedForOthers ==
    last.path = "per_target" =>
        LET item == store[last.task_id] IN
        \A i \in 1..Len(last.expanded) :
            (Resolvable(item, last.expanded[i]) /\ HasHandler(item)) =>
                \E k \in 1..Len(last.calls) :
                    /\ last.calls[k].target = last.expanded[i]
                    /\ last.calls[k].entered

\* C10: a dispatched task is marked fired if and only if every target result
\* reports success, else it is marked errored and the stored last_error is the
\* '; '-joined 'target: error' entries of exactly the failing targets, in order;
\* never both marks.
C10_FiredIffAllSucceed ==
    (last.task_id # "" /\ ~last.skipped) =>
        LET item == store[last.task_id]
            failing == SelectSeq(last.targets, LAMBDA r : ~r.success)
            k == Len(failing)
        IN  /\ Len(last.targets) >= 1
            /\ last.marks \in {<<"fired">>, <<"errored">>}
            /\ last.marks = <<"fired">> <=> k = 0
            /\ last.marks = <<"fired">> => item.last_error = None
            /\ last.marks = <<"errored">> =>
                  /\ item.last_error # None
                  /\ LET msg == item.last_error[1] IN
                     /\ Len(msg) = 4 * k - 1
                     /\ \A i \in 1..k :
                          /\ msg[4 * i - 3] = failing[i].target
                          /\ msg[4 * i - 2] = ": "
                          /\ msg[4 * i - 1] = failing[i].error[1]
                          /\ i < k => msg[4 * i] = "; "

\* C10 witness: one target succeeded and one failed; the task is marked errored
C10_Witness ==
    /\ last.task_id = "t1" /\ ~last.skipped
    /\ Len(last.targets) = 2
    /\ last.targets[1].success
    /\ ~last.targets[2].success
    /\ last.marks = <<"errored">>
    /\ Len(store["t1"].last_error[1]) = 3

\* this step is one iteration of the loop: one more backend call
IterStep == loop.pc = "loop" /\ Len(loop'.seen) = Len(loop.seen) + 1

\* the send_message call of this block is accepted in this environment
SendSucceeds(block, env) ==
    /\ block.name = "send_message"
    /\ block.input = "ok"
    /\ env.channel_id # None /\ env.channel_id # Some("")
    /\ env.url # "" /\ env.token # ""
    /\ block.answer = "ack"

\* the response asks for the tool `name` and no terminal tool call precedes it
\* in the response
ReachesTool(response, env, name) ==
    /\ response.kind = "answer"
    /\ response.stop_reason = "tool_use"
    /\ \E j \in 1..Len(response.content) :
        /\ response.content[j].name = name
        /\ \A h \in 1..(j - 1) :
            /\ response.content[h].name # "skip_message"
            /\ ~SendSucceeds(response.content[h], env)

\* C11: when the backend asks for skip_message in its k-th answer, no terminal
\* tool call before it, the loop returns success with message_sent = false and
\* iterations = k, and the backend is not called a (k+1)-th time: a loop that
\* has returned makes no further call.
C11_SkipEndsLoop ==
    [][/\ (IterStep /\ ReachesTool(loop'.answers[Len(loop'.answers)], loop.env, "skip_message")) =>
            LET k == Len(loop'.seen) IN
            /\ k <= loop.max
            /\ loop'.pc = "done"
            /\ loop'.ret # None
            /\ loop'.ret[1].success
            /\ loop'.ret[1].message_sent = Some(FALSE)
            /\ loop'.ret[1].iterations = k
       /\ loop.pc = "done" => loop'.seen = loop.seen /\ loop'.ret = loop.ret
      ]_vars

\* C11 witness: skip_message in the second answer of a loop allowed three
\* iterations; the loop has returned iterations = 2 after two backend calls
C11_Witness ==
    /\ loop.pc = "done"
    /\ loop.max = 3
    /\ Len(loop.seen) = 2
    /\ loop.answers[1].stop_reason = "tool_use"
    /\ loop.answers[2] = Answer("tool_use", <<SkipMessage>>)
    /\ loop.ret = Some(LoopReturn(TRUE, Some(FALSE), Some("<reason>"), None, 2))

\* the answer is tool-use and none of its tool calls is terminal
Continues(response, env) ==
    /\ response.kind = "answer"
    /\ response.stop_reason = "tool_use"
    /\ \A j \in 1..Len(response.content) :
        /\ response.content[j].name # "skip_message"
        /\ ~SendSucceeds(response.content[j], env)

\* C12: the loop returns in the end, whatever the backend answers; the backend
\* is never called more than max_iterations times (not at all when
\* max_iterations is below 1); and when each of the max_iterations answers was
\* tool-use without a terminal tool call that succeeded, the return is the
\* failure max_iterations_reached with iterations = max_iterations.
C12_LoopBounded ==
    /\ [](/\ Len(loop.seen) <= (IF loop.max > 0 THEN loop.max ELSE 0)
          /\ Len(loop.seen) = Len(loop.answers)
          /\ (/\ loop.pc = "done"
              /\ loop.prompt # ""
              /\ Len(loop.answers) = loop.max
              /\ \A k \in 1..Len(loop.answers) : Continues(loop.answers[k], loop.env)) =>
                 loop.ret = Some(LoopReturn(FALSE, None, None,
                                            Some(<<"max_iterations_reached">>), loop.max)))
    /\ (loop.pc = "start") ~> (loop.pc = "done" /\ loop.ret # None)

\* C12 witness: three tool-use answers, none terminal, under max_iterations = 3
C12_Witness ==
    /\ loop.pc = "done"
    /\ loop.max = 3
    /\ Len(loop.seen) = 3
    /\ \A k \in 1..3 : Continues(loop.answers[k], loop.env)
    /\ loop.answers[3] = Answer("tool_use", <<SendHttpError>>)
    /\ loop.ret[1].error = Some(<<"max_iterations_reached">>)
    /\ loop.ret[1].iterations = 3

\* C13 as stated: a due task with execution_rate = 0 is skipped with reason
\* execution_rate for every value of the draw; no target is expanded, no
\* handler is called and the task is not marked fired.
C13_RateZeroAlwaysSkipped ==
    [][\A id \in TaskIds :
        (ProcStep(id) /\ Head(queue).scheduler_params.execution_rate = Some(0)) =>
            /\ last'.skipped /\ last'.reason = "execution_rate"
            /\ last'.expanded = <<>> /\ last'.calls = <<>>
            /\ ~last'.fired /\ last'.marks = <<>>
      ]_vars

\* C14: a due task with execution_rate = 100, or with none configured, is not
\* skipped with reason execution_rate, for any value of the draw.
C14_FullRateNeverSkipped ==
    [][\A id \in TaskIds :
        (ProcStep(id)
         /\ Head(queue).scheduler_params.execution_rate \in {None, Some(100)}) =>
            /\ \A draw \in RandMin..RandMax : ~execution_rate_skips(Head(queue), draw)
            /\ ~(last'.skipped /\ last'.reason = "execution_rate")
      ]_vars

\* C14 witness: a task with execution_rate = 100 has been processed in three
\* runs, never skipped
C14_Witness ==
    /\ store["t1"].scheduler_params.execution_rate = Some(100)
    /\ last.task_id = "t1"
    /\ ~last.skipped
    /\ runs = 3
    /\ firedCount["t1"] = 3

\* C15: a run that skips a task, for reason execution_rate or no_targets, calls
\* no handler, makes no store update and posts no alert: the whole table is as
\* before, the task is still due, and the next scan selects it again.
C15_SkipChangesNothing ==
    [][\A id \in TaskIds :
        /\ (ProcStep(id) /\ last'.skipped) =>
              /\ last'.reason \in {"execution_rate", "no_targets"}
              /\ last'.calls = <<>>
              /\ last'.updates = <<>>
              /\ last'.alerts = <<>>
              /\ last'.marks = <<>>
              /\ store' = store
              /\ id \in get_due_tasks(store', now')
        /\ (ScanStep /\ outcome[id] = "skipped") => Queued(queue', id)
      ]_vars

\* C15 witness: t1, whose only target is a role, was skipped for no_targets
\* with its error_count of 2 untouched; the clock has advanced and the next run
\* has selected it again
C15_Witness ==
    /\ outcome["t1"] = "skipped"
    /\ store["t1"].targets = <<"role:hive">>
    /\ store["t1"].error_count = Some(2)
    /\ ticks >= 1
    /\ runs >= 2
    /\ pc = "running"
    /\ Queued(queue, "t1")

\* C16: an exception raised while one target is handled (by resolve_channel
\* or by the handler call) becomes the result [target, success = false, error]
\* of that target; every expanded target still has its result, those of the
\* other targets are what their own handling gives, and the task is reconciled
\* as errored by one store update.  On the broadcast path the one call stands
\* for all targets and its exception becomes the one result.
C16_ExceptionBecomesResult ==
    (last.task_id # "" /\ last.raises # <<>>) =>
        LET item == store[last.task_id]
            n == Len(last.expanded)
            Raising == {last.raises[k] : k \in 1..Len(last.raises)}
            channel_id == resolve_channel(Get(item.channel, "dm"), "", item)[1]
        IN  /\ ~last.skipped
            /\ last.error /\ ~last.fired
            /\ last.marks = <<"errored">>
            /\ Len(last.updates) = 1
            /\ item.last_error # None
            /\ item.error_count = Some(errBase[last.task_id] + failStreak[last.task_id])
            /\ last.path = "broadcast" =>
                  /\ Len(last.targets) = 1
                  /\ last.targets[1].target = "all"
                  /\ ~last.targets[1].success
                  /\ last.targets[1].error # None
            /\ last.path = "per_target" =>
                  /\ Len(last.targets) = n
                  /\ \A i \in 1..n :
                        LET t == last.expanded[i] IN
                        /\ last.targets[i].target = t
                        /\ t \in Raising =>
                              /\ ~last.targets[i].success
                              /\ last.targets[i].error # None
                        /\ t \notin Raising =>
                              \E resp \in Responses(item, channel_id) :
                                 /\ per_target_step(item, t, resp).raises = <<>>
                                 /\ last.targets[i] = per_target_step(item, t, resp).result

\* C16 witness: the handler raised for the first of two targets and succeeded
\* for the second; the task is errored with the first target's exception only
C16_Witness ==
    /\ last.path = "per_target"
    /\ Len(last.expanded) = 2
    /\ last.raises = <<last.expanded[1]>>
    /\ last.targets[1].error = Some("<exception>")
    /\ last.targets[2].success
    /\ Len(last.calls) = 2
    /\ last.marks = <<"errored">>
    /\ store[last.task_id].last_error = Some(<<last.expanded[1], ": ", "<exception>">>)

\* the task of the latest call takes the one-message path
IsBroadcast(item) ==
    /\ Get(item.type, "MESSAGE") = "MESSAGE"
    /\ Get(item.channel, "dm") \notin {"dm", "group-dm"}
    /\ item.channel_id # None /\ item.channel_id # Some("")

\* C17 as stated: a dispatched MESSAGE task with content and a known assignee,
\* whose targets all resolve and whose submissions the collaborator accepts,
\* has every target result successful and is marked fired (repeats_executed
\* incremented, error_count reset), on the per-target path and on the
\* broadcast path.
C17_MessageFires ==
    (/\ last.task_id # "" /\ ~last.skipped
     /\ Get(store[last.task_id].type, "MESSAGE") = "MESSAGE"
     /\ store[last.task_id].payload.content # ""
     /\ store[last.task_id].assignee \in AGENT_LAMBDAS
     /\ \/ IsBroadcast(store[last.task_id])
        \/ \A i \in 1..Len(last.expanded) : Resolvable(store[last.task_id], last.expanded[i])
     /\ \A i \in 1..Len(last.targets) : last.targets[i].error # Some("<invoke error>")) =>
        /\ \A i \in 1..Len(last.targets) : last.targets[i].success
        /\ last.fired
        /\ last.marks = <<"fired">>
        /\ store[last.task_id].error_count = Some(0)
        /\ store[last.task_id].scheduler_params.repeats_executed = Some(firedCount[last.task_id])

\* C18 as stated: a dispatched task takes the broadcast path exactly when it is
\* a MESSAGE task with a channel mode other than dm and group-dm and a
\* pre-resolved channel_id; on that path the handler is invoked exactly once,
\* for all expanded targets combined, and one target result is recorded.
C18_BroadcastOneInvocation ==
    (last.task_id # "" /\ ~last.skipped) =>
        /\ last.path = "broadcast" <=> IsBroadcast(store[last.task_id])
        /\ last.path # "broadcast" => last.path = "per_target"
        /\ last.path = "broadcast" =>
              /\ Len(last.calls) = 1
              /\ last.calls[1].target = last.expanded
              /\ last.calls[1].entered
              /\ Len(last.targets) = 1

\* what holds of C18: the choice of the path, one call statement executed for
\* all expanded targets combined, and one target result, however many targets
C18_PathSelection ==
    (last.task_id # "" /\ ~last.skipped) =>
        /\ last.path = "broadcast" <=> IsBroadcast(store[last.task_id])
        /\ last.path # "broadcast" => last.path = "per_target"
        /\ last.path = "broadcast" =>
              /\ Len(last.calls) = 1
              /\ last.calls[1].target = last.expanded
              /\ Len(last.targets) = 1

\* a broadcast to two targets: one call statement, one result
C18_Witness ==
    /\ last.path = "broadcast"
    /\ Len(last.expanded) = 2
    /\ Len(last.calls) = 1
    /\ Len(last.targets) = 1

\* the precedence C19 states, for a channel mode that is a string
Precedence(item, target) ==
    LET mode == Get(item.channel, "dm") IN
    IF item.channel_id # None /\ item.channel_id # Some("") THEN <<item.channel_id, None>>
    ELSE IF mode \in {"123456"} THEN <<Some(mode), None>>
    ELSE IF mode = "dm" THEN <<None, Some(target)>>
    ELSE <<None, None>>

ReachesFailingSend(response, env) ==
    /\ response.kind = "answer"
    /\ response.stop_reason = "tool_use"
    /\ \E j \in 1..Len(response.content) :
        /\ response.content[j].name = "send_message"
        /\ ~SendSucceeds(response.content[j], env)
        /\ \A h \in 1..(j - 1) :
            /\ response.content[h].name # "skip_message"
            /\ ~SendSucceeds(response.content[h], env)

\* C20 as stated: when the backend asks for send_message in its k-th answer and
\* the send fails, the loop returns a failure in that iteration, with
\* iterations = k, and the backend is not called again.
C20_SendFailureEndsLoop ==
    [][(IterStep /\ ReachesFailingSend(loop'.answers[Len(loop'.answers)], loop.env)) =>
            /\ loop'.pc = "done"
            /\ loop'.ret # None
            /\ ~loop'.ret[1].success
            /\ loop'.ret[1].iterations = Len(loop'.seen)
      ]_vars

\* what the loop does instead: an answer whose only terminal calls are sends
\* that fail gives no return in that iteration; the failure is handed to the
\* backend as a tool result
C20_SendFailureContinues ==
    [][(/\ IterStep
        /\ ReachesFailingSend(loop'.answers[Len(loop'.answers)], loop.env)
        /\ Continues(loop'.answers[Len(loop'.answers)], loop.env)) =>
            /\ loop'.ret = None
            /\ loop'.pc # "done"
            /\ Len(loop'.messages) = Len(loop.messages) + 2
      ]_vars

\* a failed send is followed by a further call of the backend
C20_Witness ==
    /\ Len(loop.seen) = 2
    /\ loop.answers[1] = Answer("tool_use", <<SendHttpError>>)
    /\ loop.env = Configured

\* the response asks for a tool that does not exist or for a query tool that
\* fails
HasToolError(response) ==
    /\ response.kind = "answer"
    /\ response.stop_reason = "tool_use"
    /\ \E j \in 1..Len(response.content) :
        \/ response.content[j].name \notin QueryTools \cup {"text", "send_message", "skip_message"}
        \/ /\ response.content[j].name \in QueryTools
           /\ response.content[j].answer # "data"

\* C21: an answer that asks for an unknown tool or a failing query tool, and for
\* no terminal tool that ends the loop, gives no return: the assistant turn and
\* a tool-result turn carrying the error of each such call are appended to the
\* history; while iterations remain the next step is a backend call, and every
\* backend call is made with the history as it then stands.
C21_ToolErrorContinues ==
    [][/\ (IterStep
           /\ HasToolError(loop'.answers[Len(loop'.answers)])
           /\ Continues(loop'.answers[Len(loop'.answers)], loop.env)) =>
              LET response == loop'.answers[Len(loop'.answers)]
                  n == Len(loop.messages)
              IN  /\ loop'.ret = None /\ loop'.pc = "loop"
                  /\ Len(loop'.messages) = n + 2
                  /\ SubSeq(loop'.messages, 1, n) = loop.messages
                  /\ loop'.messages[n + 1] = [role |-> "assistant", content |-> response.content]
                  /\ loop'.messages[n + 2].role = "user"
                  /\ \A j \in 1..Len(response.content) :
                        (\/ response.content[j].name \notin
                                QueryTools \cup {"text", "send_message", "skip_message"}
                         \/ /\ response.content[j].name \in QueryTools
                            /\ response.content[j].answer # "data") =>
                        \E r \in 1..Len(loop'.messages[n + 2].content) :
                            /\ loop'.messages[n + 2].content[r].toolUseId = j
                            /\ loop'.messages[n + 2].content[r].error # None
       /\ (loop.pc = "loop" /\ loop.i < loop.max) =>
              /\ IterStep
              /\ loop'.seen[Len(loop'.seen)] = loop.messages
      ]_vars

\* C21 witness: the first answer asked for an unknown tool and the backend was
\* called a second time with the error in the history
C21_Witness ==
    /\ Len(loop.seen) = 2
    /\ loop.answers[1] = Answer("tool_use", <<NoSuchTool>>)
    /\ Len(loop.seen[2]) = 3
    /\ loop.seen[2][3] = [role |-> "user",
                          content |-> <<[toolUseId |-> 1, tool |-> "nosuch_tool",
                                         error |-> Some("Unknown tool: <tool_name>")]>>]

\* C22: each backend response is classified by its stop indicator: end_turn
\* returns success with message_sent = false and reason
\* llm_ended_without_action; an indicator other than tool_use and end_turn
\* returns a failure that carries the indicator; an exception of the backend
\* call returns a failure; each of these in the iteration of the response, and
\* only a tool_use response leaves the loop running.
C22_StopReasonClassified ==
    [][IterStep =>
        LET response == loop'.answers[Len(loop'.answers)]
            k == Len(loop'.seen)
        IN  /\ k = loop.i + 1
            /\ response.kind = "raise" =>
                  /\ loop'.pc = "done"
                  /\ loop'.ret # None
                  /\ ~loop'.ret[1].success
                  /\ loop'.ret[1].error # None
                  /\ loop'.ret[1].iterations = k
            /\ (response.kind = "answer" /\ response.stop_reason = "end_turn") =>
                  /\ loop'.pc = "done"
                  /\ loop'.ret = Some(LoopReturn(TRUE, Some(FALSE),
                                          Some("llm_ended_without_action"), None, k))
            /\ (response.kind = "answer"
                /\ response.stop_reason \notin {"tool_use", "end_turn"}) =>
                  /\ loop'.pc = "done"
                  /\ loop'.ret = Some(LoopReturn(FALSE, None, None,
                                          Some(<<"Unexpected stop_reason: ", response.stop_reason>>), k))
            /\ loop'.pc = "loop" =>
                  /\ response.kind = "answer"
                  /\ response.stop_reason = "tool_use"
                  /\ loop'.ret = None
      ]_vars

\* C22 witness: after one tool_use round the backend ends its turn
C22_Witness ==
    /\ loop.pc = "done"
    /\ Len(loop.answers) = 2
    /\ loop.answers[1].stop_reason = "tool_use"
    /\ loop.answers[2] = Answer("end_turn", <<Text>>)
    /\ loop.ret = Some(LoopReturn(TRUE, Some(FALSE), Some("llm_ended_without_action"), None, 2))

\* C23 as stated: whatever max_iterations is configured, the loop of a task
\* with a prompt runs with a bound of at least 1 and calls the backend at least
\* once before it returns; an absent or zero value gives the bound 5.
C23_MaxIterationsPositive ==
    (loop.pc \in {"loop", "done"} /\ loop.prompt # "") =>
        /\ loop.max >= 1
        /\ loop.max_iterations_raw \in {None, Some(0)} => loop.max = DefaultMaxIterations
        /\ loop.pc = "done" => Len(loop.seen) >= 1

\* what holds: the bound is 5 for an absent or zero value and the configured
\* number otherwise, and a configured positive bound gives at least one call
C23_MaxIterationsAsConfigured ==
    (loop.pc \in {"loop", "done"} /\ loop.prompt # "") =>
        /\ loop.max = (IF loop.max_iterations_raw \in {None, Some(0)}
                       THEN DefaultMaxIterations ELSE loop.max_iterations_raw[1])
        /\ (loop.pc = "done" /\ loop.max >= 1) => Len(loop.seen) >= 1

\* a negative bound: the loop has returned without any backend call
C23_Witness ==
    /\ loop.pc = "done"
    /\ loop.prompt # ""
    /\ loop.max_iterations_raw = Some(-2)
    /\ loop.seen = <<>>
    /\ loop.ret = Some(LoopReturn(FALSE, None, None, Some(<<"max_iterations_reached">>), -2))

\* the run has just dispatched a POLL task with a well-formed payload whose
\* channel mode is dm or group-dm, and no handler call ended by an exception
PollInDmDispatched ==
    /\ last.path = "per_target"
    /\ Len(last.expanded) >= 1
    /\ store[last.task_id].type = Some("POLL")
    /\ Get(store[last.task_id].channel, "dm") \in {"dm", "group-dm"}
    /\ store[last.task_id].payload.question # ""
    /\ store[last.task_id].payload.options \in 2..10
    /\ last.raises = <<>>

FaultyProcStep(id) ==
    /\ pc = "running" /\ queue # <<>>
    /\ Head(queue).task_id = id
    /\ last'.task_id = id
    /\ ~last'.aborted

\* C25: when process_task returns a failure for a task, alert_cpu_errors was
\* called once for it, with the errors of all failing targets in one message,
\* and not at all when the task fired or was skipped; whatever the alert
\* collaborator answers (refusal, exception, no configuration), the
\* call returns, the item carries exactly the error update, and the summary
\* counts the task as one error. No alert call ends a run: a run that is cut
\* short has made no alert call and no change to the table.
C25_OneAlertPerFailedTask ==
    [][/\ (pc = "running" /\ queue # <<>> /\ last'.aborted) =>
            last'.alert_calls = <<>> /\ store' = store
       /\ \A id \in TaskIds : FaultyProcStep(id) =>
        /\ (last'.fired \/ last'.skipped) => last'.alert_calls = <<>>
        /\ last'.error =>
              /\ Len(last'.alert_calls) = 1
              /\ last'.alert_calls[1].task_id = id
              /\ last'.alert_calls[1].error_message = join_errors(last'.targets, 1)
              /\ ~last'.alert_calls[1].raised
              /\ pc' = "running"
              /\ queue' = Tail(queue)
              /\ store' = [store EXCEPT ![id] =
                              [@ EXCEPT !.error_count = Some(Get(Head(queue).error_count, 0) + 1),
                                        !.last_error = Some(join_errors(last'.targets, 1))]]
              /\ results'.processed = results.processed + 1
              /\ results'.errors = results.errors + 1
              /\ results'.fired = results.fired /\ results'.skipped = results.skipped
              /\ results'.tasks = Append(results.tasks,
                                         [task_id |-> id, fired |-> FALSE,
                                          skipped |-> FALSE, error |-> TRUE])
      ]_vars

\* C25 witness: two targets failed, one alert was made for both, the alert
\* request raised, and the task is in the summary as an error
C25_Witness ==
    /\ last.task_id = "t1"
    /\ last.error
    /\ Len(last.targets) = 2
    /\ \A i \in 1..2 : ~last.targets[i].success
    /\ Len(last.alert_calls) = 1
    /\ last.alert_calls[1].requested /\ ~last.alert_calls[1].posted
    /\ store["t1"].error_count = Some(1)
    /\ results.errors >= 1

\* C26 as stated: every pass of the loop over due_tasks ends with the task
\* counted and the loop going on, whatever fails while the task is processed;
\* no run is cut short; and the summary always has
\* processed = fired + skipped + errors = number of entries of tasks.
C26_RunProcessesAll ==
    [][/\ (pc = "running" /\ queue # <<>>) =>
            /\ pc' = "running"
            /\ queue' = Tail(queue)
            /\ results'.processed = results.processed + 1
            /\ ~last'.aborted
       /\ pc' # "aborted"
       /\ results'.processed = results'.fired + results'.skipped + results'.errors
       /\ results'.processed = Len(results'.tasks)
      ]_vars

\* what holds: a pass in which no store update raises counts the task and goes
\* on to the next one, and the summary adds up
C26_RunProcessesAllUnlessStoreRaises ==
    [][/\ (pc = "running" /\ queue # <<>> /\ ~last'.aborted) =>
            /\ pc' = "running"
            /\ queue' = Tail(queue)
            /\ results'.processed = results.processed + 1
       /\ (pc = "running" /\ queue # <<>> /\ last'.aborted) =>
            /\ last'.alert_calls = <<>>
            /\ store' = store
       /\ results'.processed = results'.fired + results'.skipped + results'.errors
       /\ results'.processed = Len(results'.tasks)
      ]_vars

\* a run cut short by the store: the first of two due tasks was being
\* processed, the second is still waiting and no summary entry was made
C26_Witness ==
    /\ pc = "aborted"
    /\ last.aborted
    /\ Len(queue) = 2
    /\ results.processed = 0

RecognisedPatterns ==
    {"hourly", "daily", "weekly:sunday", "weekly:monday", "weekly:tuesday",
     "weekly:wednesday", "weekly:Wednesday", "weekly:thursday", "weekly:friday",
     "weekly:saturday"}

\* C27 as stated: for hourly, daily and weekly:<day>, with or without a
\* schedule_time, the next_fire computed from now is strictly after now.
C27_NextFireAfterNow ==
    (calc.done /\ calc.recurring \in RecognisedPatterns \cup {"weekly:funday"}) =>
        /\ ~StrLte(calc.out[1], isoformat(calc.from_date))
        /\ FromIso(calc.out[1]) > calc.from_date

\* what holds: next_fire is strictly after now for every pattern but hourly
\* with a schedule_time that is not later today
C27_NextFireAfterNowButHourly ==
    (/\ calc.done
     /\ calc.recurring \in RecognisedPatterns \cup {"weekly:funday"}
     /\ ~(/\ calc.recurring = "hourly"
          /\ calc.preferred_time # None
          /\ LET hm == parse_time(calc.preferred_time[1])
             IN replace_time(calc.from_date, hm[1], hm[2]) + Hour <= calc.from_date)) =>
        /\ ~StrLte(calc.out[1], isoformat(calc.from_date))
        /\ FromIso(calc.out[1]) > calc.from_date

\* hourly with schedule_time 09:30, computed at noon: next_fire is 10:30 of the
\* same day
C27_Witness ==
    /\ calc.done
    /\ calc.recurring = "hourly"
    /\ calc.preferred_time = Some("09:30")
    /\ calc.from_date % Day = 12 * Hour
    /\ FromIso(calc.out[1]) = calc.from_date - Hour - 30 * Minute

\* the runtime's weekday (Monday = 0) of the day named in weekly:<day>
NamedWeekday(recurring) ==
    ((CHOOSE i \in 1..Len(days) : days[i] = target_day(recurring)) - 1 + 6) % 7

\* C28 as stated: for weekly:<day> with a recognised day name, next_fire falls
\* on the named weekday, for every now and every schedule_time.
C28_WeeklyOnNamedDay ==
    (/\ calc.done
     /\ IsWeekly(calc.recurring)
     /\ calc.recurring \in RecognisedPatterns) =>
        weekday(FromIso(calc.out[1])) = NamedWeekday(calc.recurring)

\* what holds: next_fire falls on the named weekday unless the schedule_time is
\* later today, and then it is today at the schedule_time
C28_WeeklyOnNamedDayUnlessLaterToday ==
    (/\ calc.done
     /\ IsWeekly(calc.recurring)
     /\ calc.recurring \in RecognisedPatterns) =>
        LET later == /\ calc.preferred_time # None
                     /\ LET hm == parse_time(calc.preferred_time[1])
                        IN replace_time(calc.from_date, hm[1], hm[2]) > calc.from_date
        IN  /\ ~later => weekday(FromIso(calc.out[1])) = NamedWeekday(calc.recurring)
            /\ later => /\ FromIso(calc.out[1]) \div Day = calc.from_date \div Day
                        /\ FromIso(calc.out[1]) > calc.from_date

\* weekly:monday with schedule_time 12:00, computed on a Wednesday at 09:30:
\* next_fire is that Wednesday at noon
C28_Witness ==
    /\ calc.done
    /\ calc.recurring = "weekly:monday"
    /\ calc.preferred_time = Some("12:00")
    /\ weekday(calc.from_date) = 2
    /\ calc.from_date % Day = 9 * Hour + 30 * Minute
    /\ FromIso(calc.out[1]) = (calc.from_date \div Day) * Day + 12 * Hour

\* C29: for a task with num_repeats = N > 0 whose repeats_executed equals the
\* number of times it was marked fired (as at creation: 0 and 0), every step
\* keeps N, keeps the two equal, and keeps both at most N: the task is marked
\* fired at most N times over any sequence of runs.
C29_RepeatsBounded ==
    [][\A id \in TaskIds :
        LET N == Get(store[id].scheduler_params.num_repeats, 0)
            executed == Get(store[id].scheduler_params.repeats_executed, 0)
        IN (N > 0 /\ executed = firedCount[id] /\ firedCount[id] <= N) =>
              /\ Get(store'[id].scheduler_params.num_repeats, 0) = N
              /\ Get(store'[id].scheduler_params.repeats_executed, 0) = firedCount'[id]
              /\ firedCount'[id] <= N
              /\ firedCount'[id] \in {firedCount[id], firedCount[id] + 1}
              /\ (firedCount'[id] = N) => store'[id].status = "inactive"
      ]_vars

\* C29 witness: a task with num_repeats = 2 created without a counter was
\* marked fired twice in the first two runs and not in the third
C29_Witness ==
    /\ store["t1"].scheduler_params.num_repeats = Some(2)
    /\ store["t1"].scheduler_params.repeats_executed = Some(2)
    /\ firedCount["t1"] = 2
    /\ store["t1"].status = "inactive"
    /\ runs = 3
    /\ pc = "idle"

\* the blocks of a response that are tool calls, in the order received
ToolBlocks(content) == SelectSeq(content, LAMBDA b : b.name # "text")

\* the block is a terminal tool call that ends the loop
EndsLoop(block, env) == block.name = "skip_message" \/ SendSucceeds(block, env)

\* C30: the tool calls of one response are executed in the order received, up
\* to and including the first terminal one (skip_message, or send_message that
\* succeeds); the loop then returns at once with that call's result and the
\* calls after it are not executed, so no message is submitted by them.
C30_FirstTerminalWins ==
    [][IterStep =>
        LET response == loop'.answers[Len(loop'.answers)] IN
        (response.kind = "answer" /\ response.stop_reason = "tool_use") =>
            LET blocks == ToolBlocks(response.content)
                firsts == {j \in 1..Len(blocks) : EndsLoop(blocks[j], loop.env)}
                n == IF firsts = {} THEN Len(blocks)
                     ELSE CHOOSE j \in firsts : \A h \in firsts : j <= h
                ran == SubSeq(blocks, 1, n)
            IN  /\ loop'.executed = loop.executed \o [j \in 1..n |-> ran[j].name]
                /\ loop'.submitted = loop.submitted
                      + Cardinality({j \in 1..n : execute_tool(ran[j], loop.env).submitted})
                /\ firsts # {} =>
                      /\ loop'.pc = "done"
                      /\ loop'.ret # None
                      /\ loop'.ret[1].success
                      /\ loop'.ret[1].iterations = Len(loop'.seen)
                      /\ loop'.ret[1].message_sent = Some(blocks[n].name = "send_message")
                /\ firsts = {} => loop'.ret = None
      ]_vars

\* C30 witness: the response [skip_message, send_message] in a configured
\* environment: only skip_message was executed, nothing was submitted, and the
\* loop returned message_sent = false
C30_Witness ==
    /\ loop.pc = "done"
    /\ loop.env = Configured
    /\ Len(loop.answers) = 1
    /\ loop.answers[1] = Answer("tool_use", <<SkipMessage, SendAccepted>>)
    /\ loop.executed = <<"skip_message">>
    /\ loop.submitted = 0
    /\ loop.ret[1].success
    /\ loop.ret[1].message_sent = Some(FALSE)

\* the loop of the call made for target t in the last process_task ended by one
\* of the endings E
EndedBy(calls, t, E) ==
    \E k \in 1..Len(calls) :
        /\ calls[k].target = t
        /\ calls[k].handler = "handle_query_for_update"
        /\ calls[k].ending \in E

\* C31: a QUERY-FOR-UPDATE task with a prompt is marked fired whenever the loop
\* ended for every target by send_message, skip_message or end of turn, whether
\* or not any message was sent: repeats_executed grows by one, error_count is
\* reset, next_fire is recomputed from now and lies after now, and the task is
\* not due any more. When the loop ended for some target by
\* max_iterations_reached the task is marked errored: only error_count and
\* last_error change, and the task is still due.
C31_QueryFiresWithoutMessage ==
    [][\A id \in TaskIds :
        (/\ ProcStep(id)
         /\ Head(queue).type = Some("QUERY-FOR-UPDATE")
         /\ Head(queue).payload.content # ""
         /\ ~last'.skipped) =>
            LET task == Head(queue)
                n == Len(last'.expanded)
            IN
            /\ (/\ n >= 1
                /\ \A i \in 1..n :
                      EndedBy(last'.calls, last'.expanded[i],
                              {"message_sent", "skip_message", "end_turn"})) =>
                  /\ last'.fired /\ ~last'.error
                  /\ last'.marks = <<"fired">>
                  /\ last'.alerts = <<>>
                  /\ store'[id].scheduler_params.repeats_executed =
                        Some(Get(task.scheduler_params.repeats_executed, 0) + 1)
                  /\ store'[id].error_count = Some(0)
                  /\ store'[id].last_error = None
                  /\ store'[id].next_fire = calculate_next_fire(task, now)
                  /\ store'[id].next_fire # None
                  /\ ~StrLte(store'[id].next_fire[1], isoformat(now))
                  /\ id \notin get_due_tasks(store', now)
            /\ (\E i \in 1..n :
                      EndedBy(last'.calls, last'.expanded[i], {"max_iterations_reached"})) =>
                  /\ last'.error /\ ~last'.fired
                  /\ last'.marks = <<"errored">>
                  /\ store'[id] = [store[id] EXCEPT
                          !.error_count = Some(Get(task.error_count, 0) + 1),
                          !.last_error = Some(join_errors(last'.targets, 1))]
                  /\ \E i \in 1..n :
                        last'.targets[i].error = Some("max_iterations_reached")
                  /\ id \in get_due_tasks(store', now)
      ]_vars

\* C31 witness: the loop ended for two targets by skip_message and by end of
\* turn, no message was sent, and the task is marked fired
C31_Witness ==
    /\ last.task_id = "t1"
    /\ store["t1"].type = Some("QUERY-FOR-UPDATE")
    /\ Len(last.expanded) = 2
    /\ Len(last.calls) = 2
    /\ {last.calls[1].ending, last.calls[2].ending} = {"skip_message", "end_turn"}
    /\ \A k \in 1..2 : ~last.calls[k].sent
    /\ last.fired
    /\ store["t1"].scheduler_params.repeats_executed = Some(1)
    /\ store["t1"].error_count = Some(0)

\* the loop itself agrees: it returns success exactly when it ended by
\* send_message, skip_message or end of turn (message_sent is then set), and
\* max_iterations_reached is a failure
C31_LoopEndingsAgree ==
    (loop.pc = "done" /\ loop.ret # None /\ loop.prompt # "") =>
        /\ loop.ret[1].success <=> loop.ret[1].message_sent # None
        /\ loop.ret[1].success <=> loop.ret[1].error = None
        /\ loop.ret[1].error = Some(<<"max_iterations_reached">>) => ~loop.ret[1].success
        /\ loop.ret[1].message_sent = Some(TRUE) => loop.submitted >= 1

====
